---- MODULE Spec2Model ----
(***************************************************************************)
(* A model of the zarrs_ffi boundary layer: capability-typed array and     *)
(* group handles over one storage backend, the chunk / subset read and     *)
(* write calls, the address-arithmetic queries and the attribute calls.    *)
(* Every extern "C" function is one action; the engine calls it makes      *)
(* (zarrs::array::Array methods) are operators over the backend contents.  *)
(***************************************************************************)
EXTENDS Integers, Sequences, FiniteSets, TLC

VARIABLES
    zarrs,      \* the engine crate the library is built against: its version
    backend,    \* the backend's shared ownership: the storage handle and the clones
    store,      \* the backend: the metadata key (zarr.json) of the node, chunk keys
    arrays,     \* ZarrsArray handles: handle name -> ZarrsArray_T contents
    groups,     \* ZarrsGroup handles: handle name -> ZarrsGroup_T contents
    caches,     \* ZarrsShardIndexCache handles: handle name -> cache contents
    lastError,  \* LAST_ERROR
    threads,    \* the caller's threads: where each is in the call it is making
    last        \* the boundary call that has just returned: arguments and outcome

vars == <<zarrs, backend, store, arrays, groups, caches, lastError, threads, last>>

-----------------------------------------------------------------------------
(* Bounds of the model.                                                    *)

\* byte values are 0..MaxByte
MaxByte == 1
\* caller-declared byte counts are 0..MaxCount
MaxCount == 2

\* the largest value of a machine word (u64::MAX and usize::MAX, scaled down)
MaxWord == 15

Bytes == 0..MaxByte
\* what a caller's output buffer holds before a call: no stored byte equals it
Untouched == MaxByte + 1

ArrayHandles == {"a1"}
GroupHandles == {"g1"}
\* the handle slots of the caller: a second array and a second group handle
\* for the calls that are about two handles on one path
ArraySlots == ArrayHandles \cup {"a2"}
GroupSlots == GroupHandles \cup {"g2"}
CacheHandles == {"c1"}
NULL == "NULL"

-----------------------------------------------------------------------------
(* Result codes.                                                           *)

ZARRS_SUCCESS == "ZARRS_SUCCESS"
ZARRS_ERROR_NULL_PTR == "ZARRS_ERROR_NULL_PTR"
ZARRS_ERROR_STORAGE == "ZARRS_ERROR_STORAGE"
ZARRS_ERROR_ARRAY == "ZARRS_ERROR_ARRAY"
ZARRS_ERROR_BUFFER_LENGTH == "ZARRS_ERROR_BUFFER_LENGTH"
ZARRS_ERROR_INVALID_INDICES == "ZARRS_ERROR_INVALID_INDICES"
ZARRS_ERROR_INVALID_METADATA == "ZARRS_ERROR_INVALID_METADATA"
ZARRS_ERROR_STORAGE_CAPABILITY == "ZARRS_ERROR_STORAGE_CAPABILITY"
ZARRS_ERROR_UNSUPPORTED_DATA_TYPE == "ZARRS_ERROR_UNSUPPORTED_DATA_TYPE"
ZARRS_ERROR_UNKNOWN_INTERSECTING_CHUNKS == "ZARRS_ERROR_UNKNOWN_INTERSECTING_CHUNKS"
ZARRS_ERROR_GROUP == "ZARRS_ERROR_GROUP"
ZARRS_ERROR_INCOMPATIBLE_DIMENSIONALITY == "ZARRS_ERROR_INCOMPATIBLE_DIMENSIONALITY"

\* no result code: the call panicked inside the extern "C" function and the
\* process was aborted
PANIC == "panic"

-----------------------------------------------------------------------------
(* Capability variants.                                                    *)

\* the six variants of ZarrsArrayEnum / ZarrsGroupEnum
Variants == {"R", "W", "L", "RL", "RW", "RWL"}

\* the storage traits the variant's payload type implements
Caps(v) ==
    CASE v = "R"   -> {"Readable"}
      [] v = "W"   -> {"Writable"}
      [] v = "L"   -> {"Listable"}
      [] v = "RL"  -> {"Readable", "Listable"}
      [] v = "RW"  -> {"Readable", "Writable"}
      [] v = "RWL" -> {"Readable", "Writable", "Listable"}
      [] OTHER     -> {}

\* the variants of ZarrsStorageEnum a storage handle can be
StorageVariants == Variants

-----------------------------------------------------------------------------
(* Metadata documents.  A metadata text is the caller's zarr.json, kept as *)
(* its fields; ArrayMetadata::try_from accepts it when it is an array      *)
(* document with a known data type and one chunk extent per dimension.     *)
(* subchunk is the inner chunk shape of the sharding codec, <<>> without.  *)

NoMeta == [node_type |-> "none", shape |-> <<>>, chunk |-> <<>>,
           data_type |-> "", fill_value |-> 0, attributes |-> {},
       subchunk |-> <<>>]

\* the array documents callers pass to zarrsCreateArrayRW
ArrayMetaTexts ==
    { [node_type |-> "array", shape |-> <<2>>, chunk |-> <<1>>,
       data_type |-> "uint8", fill_value |-> 0, attributes |-> {},
       subchunk |-> <<>>],
      [node_type |-> "array", shape |-> <<2>>, chunk |-> <<1>>,
       data_type |-> "string", fill_value |-> 0, attributes |-> {},
       subchunk |-> <<>>],
      [node_type |-> "group", shape |-> <<>>, chunk |-> <<>>,
       data_type |-> "", fill_value |-> 0, attributes |-> {},
       subchunk |-> <<>>] }

\* chunk keys of the backend (c/0, c/1)
ChunkKeys == {0, 1}

\* DataType::fixed_size(): Some(n) as n, None as 0
fixed_size(dt) ==
    CASE dt = "uint8"  -> 1
      [] dt = "uint16" -> 2
      [] OTHER         -> 0

ArrayMetadata_try_from(text) ==
    IF /\ text.node_type = "array"
       /\ Len(text.shape) = Len(text.chunk)
       /\ \A d \in 1..Len(text.chunk) : text.chunk[d] > 0
       /\ text.data_type \in {"uint8", "uint16", "string"}
       /\ text.subchunk # <<>> =>
             /\ Len(text.subchunk) = Len(text.chunk)
             /\ \A d \in 1..Len(text.chunk) :
                   text.subchunk[d] > 0 /\ text.chunk[d] % text.subchunk[d] = 0
    THEN [ok |-> TRUE, meta |-> text]
    ELSE [ok |-> FALSE, meta |-> NoMeta]

-----------------------------------------------------------------------------
(* The engine's array methods, over the handle's metadata m and the        *)
(* backend contents st.  io = FALSE is a backend I/O failure.              *)

RECURSIVE Product(_)
Product(s) == IF s = <<>> THEN 1 ELSE Head(s) * Product(Tail(s))

chunk_grid_shape(m) ==
    [d \in 1..Len(m.shape) |-> (m.shape[d] + m.chunk[d] - 1) \div m.chunk[d]]

InGrid(m, idx) ==
    /\ Len(idx) = Len(m.shape)
    /\ \A d \in 1..Len(idx) : idx[d] < chunk_grid_shape(m)[d]

\* Array::chunk_shape: Err for indices of the wrong length or outside the grid
chunk_shape(m, idx) ==
    IF InGrid(m, idx) THEN [ok |-> TRUE, shape |-> m.chunk]
                      ELSE [ok |-> FALSE, shape |-> <<>>]

\* a chunk of n bytes holding only the fill value
Fill(m, n) == [i \in 1..n |-> m.fill_value]

IsFill(m, bytes) == \A i \in 1..Len(bytes) : bytes[i] = m.fill_value

\* the sharding codec of a one-dimensional array.  An encoded shard is the
\* bytes of its inner chunks that are not fill, in order, followed by the
\* index: for each inner chunk the offset of its bytes, or NoOffset.
NoOffset == MaxWord

\* inner chunks in a shard, and the bytes of one inner chunk
SubChunks(m) == m.chunk[1] \div m.subchunk[1]
SubChunkSize(m) == Product(m.subchunk) * fixed_size(m.data_type)

\* the bytes of inner chunk j (from 1) in the decoded bytes of a shard
Inner(m, bytes, j) == SubSeq(bytes, (j - 1) * SubChunkSize(m) + 1, j * SubChunkSize(m))

RECURSIVE ShardData(_, _, _)
ShardData(m, bytes, j) ==
    IF j > SubChunks(m) THEN <<>>
    ELSE (IF IsFill(m, Inner(m, bytes, j)) THEN <<>> ELSE Inner(m, bytes, j))
         \o ShardData(m, bytes, j + 1)

ShardIndex(m, bytes) ==
    [j \in 1..SubChunks(m) |->
        IF IsFill(m, Inner(m, bytes, j)) THEN NoOffset
        ELSE SubChunkSize(m)
               * Cardinality({ i \in 1..(j - 1) : ~IsFill(m, Inner(m, bytes, i)) })]

\* the codec chain, array to bytes: the bytes codec alone, or the sharding codec
encode(m, bytes) ==
    IF m.subchunk = <<>> THEN bytes
    ELSE ShardData(m, bytes, 1) \o ShardIndex(m, bytes)

\* the index of an encoded shard; <<>> for a shard that is not stored
decode_shard_index(m, enc) ==
    IF enc = <<>> THEN <<>> ELSE SubSeq(enc, Len(enc) - SubChunks(m) + 1, Len(enc))

\* the partial decoder of a shard: inner chunk j by the index it holds, read
\* from the encoded shard as it is now
partial_decode(m, index, enc, j) ==
    IF index = <<>> \/ enc = <<>>
    THEN [ok |-> TRUE, bytes |-> Fill(m, SubChunkSize(m))]
    ELSE IF index[j] = NoOffset
    THEN [ok |-> TRUE, bytes |-> Fill(m, SubChunkSize(m))]
    ELSE IF index[j] + SubChunkSize(m) > Len(enc)
    THEN [ok |-> FALSE, bytes |-> <<>>]
    ELSE [ok |-> TRUE, bytes |-> SubSeq(enc, index[j] + 1, index[j] + SubChunkSize(m))]

RECURSIVE DecodeFrom(_, _, _)
DecodeFrom(m, enc, j) ==
    IF j > SubChunks(m) THEN <<>>
    ELSE partial_decode(m, decode_shard_index(m, enc), enc, j).bytes
         \o DecodeFrom(m, enc, j + 1)

\* the codec chain, bytes to array
decode(m, enc) == IF m.subchunk = <<>> THEN enc ELSE DecodeFrom(m, enc, 1)

\* decoded bytes of an in-grid chunk of a one-dimensional fixed-size array:
\* a missing key decodes to the fill value
ChunkBytes(st, m, k) ==
    LET n == Product(m.chunk) * fixed_size(m.data_type)
    IN  IF st.chunks[k] = <<>> THEN Fill(m, n) ELSE decode(m, st.chunks[k])

\* Array::retrieve_chunk
retrieve_chunk(st, m, idx, io) ==
    IF ~InGrid(m, idx) \/ ~io
    THEN [ok |-> FALSE, fixed |-> FALSE, bytes |-> <<>>]
    ELSE IF fixed_size(m.data_type) = 0
    THEN [ok |-> TRUE, fixed |-> FALSE, bytes |-> <<>>]
    ELSE [ok |-> TRUE, fixed |-> TRUE, bytes |-> ChunkBytes(st, m, idx[1])]

-----------------------------------------------------------------------------
(* Handles.                                                                *)

NullArray == [variant |-> "null", meta |-> NoMeta]

Live(a) == a \in ArraySlots /\ arrays[a].variant # "null"

\* what a call leaves in LAST_ERROR: NoMsg when it does not write the slot
NoMsg == "<none>"

Written(msg) == IF msg = NoMsg THEN lastError ELSE msg

Buffer(count) == [i \in 1..count |-> Untouched]

\* the record of a call: its name, its arguments (h the handle, variant the
\* handle's variant when the call was made, cache the cache pointer of the
\* cached retrievals, text the JSON text of the attribute calls, pretty the
\* flag of the attribute getters, io whether
\* the backend answered), the caller's
\* buffer before and after, the result, whether an engine method ran (engine),
\* whether the backend contents changed (wrote), whether and with what an
\* out-parameter was written (outw, outv), and the handle's attributes before
\* the call (before)
NoCall == [op |-> "none", h |-> NULL, variant |-> "null", cache |-> "none",
           dim |-> 0, idx |-> <<>>, start |-> <<>>, shape |-> <<>>, count |-> 0,
           text |-> <<>>, pretty |-> FALSE, io |-> TRUE, bufIn |-> <<>>, bufOut |-> <<>>,
           res |-> ZARRS_SUCCESS,
           engine |-> FALSE, wrote |-> FALSE, outw |-> FALSE, outv |-> <<>>,
           before |-> {}]

Call(op, h, dim, idx, start, shape, count, bufIn, bufOut, res, engine, wrote, outw) ==
    [NoCall EXCEPT
        !.op = op, !.h = h,
        !.variant = IF h \in ArraySlots THEN arrays[h].variant
                    ELSE IF h \in GroupSlots THEN groups[h].variant ELSE "null",
        !.dim = dim, !.idx = idx, !.start = start, !.shape = shape, !.count = count,
        !.bufIn = bufIn, !.bufOut = bufOut, !.res = res, !.engine = engine,
        !.wrote = wrote, !.outw = outw]

-----------------------------------------------------------------------------
(* The storage handle.  A ZarrsStorage owns an Arc of the backend; every   *)
(* array and group is built from a clone of that Arc and drops it when it  *)
(* is destroyed.  strong is the Arc's strong count; the backend is         *)
(* released by the drop that takes the count from 1 to 0.                  *)

\* the caller's storage handle exists and holds the only reference
Shared == [handle |-> TRUE, strong |-> 1, released |-> FALSE]

\* a reference to the storage handle's Arc that is not counted
Arc_borrow(b) == b

\* storage.clone(): Arc::clone, one more strong reference
Arc_clone(b) == [b EXCEPT !.strong = @ + 1]

\* Drop for Arc: one strong reference less; the last one releases the backend
Arc_drop(b) == [b EXCEPT !.strong = @ - 1, !.released = @ \/ b.strong = 1]

\* the storage pointer of a call is null or a valid ZarrsStorage handle
ValidStorage(storage) == storage = NULL \/ backend.handle

\* zarrsDestroyStorage: drops the ZarrsStorage_T in place, and its Arc with it
zarrsDestroyStorage(storage) ==
    /\ ValidStorage(storage)
    /\ backend' = IF storage = NULL THEN backend
                  ELSE [Arc_drop(backend) EXCEPT !.handle = FALSE]
    /\ last' = [NoCall EXCEPT
                   !.op = "zarrsDestroyStorage",
                   !.variant = IF storage = NULL THEN "null" ELSE storage,
                   !.res = IF storage = NULL THEN ZARRS_ERROR_NULL_PTR
                           ELSE ZARRS_SUCCESS]
    /\ UNCHANGED <<zarrs, threads, store, arrays, groups, caches, lastError>>

-----------------------------------------------------------------------------
(* array_read.rs                                                           *)

\* a copy that stops one byte short
ptr_copy_short(src, dst, n) ==
    [i \in 1..Len(dst) |-> IF i < n /\ i <= Len(src) THEN src[i] ELSE dst[i]]

\* std::ptr::copy(src, dst, n): the first n bytes of dst become those of src
ptr_copy(src, dst, n) ==
    [i \in 1..Len(dst) |-> IF i <= n /\ i <= Len(src) THEN src[i] ELSE dst[i]]

zarrsArrayRetrieveChunkImpl(st, m, chunk_indices, chunk_bytes_length, buf, io) ==
    LET r == retrieve_chunk(st, m, chunk_indices, io)
    IN  IF ~r.ok
        THEN [res |-> ZARRS_ERROR_ARRAY, msg |-> "engine error", buf |-> buf, engine |-> TRUE]
        ELSE IF ~r.fixed
        THEN [res |-> ZARRS_ERROR_UNSUPPORTED_DATA_TYPE,
              msg |-> "variable size data types are not supported",
              buf |-> buf, engine |-> TRUE]
        ELSE IF Len(r.bytes) # chunk_bytes_length
        THEN [res |-> ZARRS_ERROR_BUFFER_LENGTH,
              msg |-> "chunk_bytes_length does not match decoded chunk size",
              buf |-> buf, engine |-> TRUE]
        ELSE [res |-> ZARRS_SUCCESS, msg |-> NoMsg,
              buf |-> ptr_copy(r.bytes, buf, chunk_bytes_length), engine |-> TRUE]

\* the variants whose match arm calls zarrsArrayRetrieveChunkImpl
RetrieveChunkArms == {"R", "RL", "RW", "RWL"}

\* a null check that comes after the dispatch on the variant
NullAfterDispatch(buf) ==
    [res |-> ZARRS_ERROR_STORAGE_CAPABILITY, msg |-> NoMsg, buf |-> buf, engine |-> FALSE]

NullPtr(buf) == [res |-> ZARRS_ERROR_NULL_PTR, msg |-> NoMsg, buf |-> buf, engine |-> FALSE]

NoCapability(msg, buf) ==
    [res |-> ZARRS_ERROR_STORAGE_CAPABILITY, msg |-> msg, buf |-> buf, engine |-> FALSE]

zarrsArrayRetrieveChunk(array, dimensionality_, pChunkIndices, chunkBytesCount, io) ==
    /\ array = NULL \/ Live(array)
    /\ LET buf == Buffer(chunkBytesCount)
           out == IF array = NULL THEN NullPtr(buf)
                  ELSE IF arrays[array].variant \in RetrieveChunkArms
                  THEN zarrsArrayRetrieveChunkImpl(store, arrays[array].meta,
                           pChunkIndices, chunkBytesCount, buf, io)
                  ELSE NoCapability("storage does not have read capability", buf)
       IN  /\ lastError' = Written(out.msg)
           /\ last' = [Call("zarrsArrayRetrieveChunk", array, dimensionality_,
                            pChunkIndices, <<>>, <<>>, chunkBytesCount,
                            buf, out.buf, out.res, out.engine, FALSE, FALSE)
                       EXCEPT !.io = io]
    /\ UNCHANGED <<zarrs, backend, threads, store, arrays, groups, caches>>

\* the engine's subset methods: the bytes of elements start..start+len-1 of a
\* one-dimensional fixed-size array, element e living in chunk e \div c
ElemBytes(st, m, e) ==
    LET c  == m.chunk[1]
        fs == fixed_size(m.data_type)
    IN  SubSeq(ChunkBytes(st, m, e \div c), ((e % c) * fs) + 1, ((e % c) + 1) * fs)

RECURSIVE RangeBytes(_, _, _, _)
RangeBytes(st, m, e, n) ==
    IF n = 0 THEN <<>> ELSE ElemBytes(st, m, e) \o RangeBytes(st, m, e + 1, n - 1)

\* the subset has the array's dimensionality and lies inside the array
InArray(m, start, shape) ==
    /\ Len(start) = Len(m.shape)
    /\ \A d \in 1..Len(start) : start[d] + shape[d] <= m.shape[d]

\* Array::retrieve_array_subset
retrieve_array_subset(st, m, start, shape, io) ==
    IF ~InArray(m, start, shape) \/ ~io
    THEN [ok |-> FALSE, fixed |-> FALSE, bytes |-> <<>>]
    ELSE IF fixed_size(m.data_type) = 0
    THEN [ok |-> TRUE, fixed |-> FALSE, bytes |-> <<>>]
    ELSE [ok |-> TRUE, fixed |-> TRUE, bytes |-> RangeBytes(st, m, start[1], shape[1])]

zarrsArrayRetrieveSubsetImpl(st, m, start, shape, subset_bytes_length, buf, io) ==
    LET r == retrieve_array_subset(st, m, start, shape, io)
    IN  IF ~r.ok
        THEN [res |-> ZARRS_ERROR_ARRAY, msg |-> "engine error", buf |-> buf, engine |-> TRUE]
        ELSE IF ~r.fixed
        THEN [res |-> ZARRS_ERROR_UNSUPPORTED_DATA_TYPE,
              msg |-> "variable size data types are not supported",
              buf |-> buf, engine |-> TRUE]
        ELSE IF Len(r.bytes) # subset_bytes_length
        THEN [res |-> ZARRS_ERROR_BUFFER_LENGTH,
              msg |-> "subset_bytes_length does not match decoded subset size",
              buf |-> buf, engine |-> TRUE]
        ELSE [res |-> ZARRS_SUCCESS, msg |-> NoMsg,
              buf |-> ptr_copy(r.bytes, buf, subset_bytes_length), engine |-> TRUE]

\* the variants whose match arm calls zarrsArrayRetrieveSubsetImpl
RetrieveSubsetArms == {"R", "RL", "RW", "RWL"}

zarrsArrayRetrieveSubset(array, pSubsetStart, pSubsetShape, subsetBytesCount, io) ==
    /\ array = NULL \/ Live(array)
    /\ LET buf == Buffer(subsetBytesCount)
           out == IF array = NULL THEN NullPtr(buf)
                  ELSE IF arrays[array].variant \in RetrieveSubsetArms
                  THEN zarrsArrayRetrieveSubsetImpl(store, arrays[array].meta,
                           pSubsetStart, pSubsetShape, subsetBytesCount, buf, io)
                  ELSE NoCapability("storage does not have read capability", buf)
       IN  /\ lastError' = Written(out.msg)
           /\ last' = [Call("zarrsArrayRetrieveSubset", array, Len(pSubsetStart),
                            <<>>, pSubsetStart, pSubsetShape, subsetBytesCount,
                            buf, out.buf, out.res, out.engine, FALSE, FALSE)
                       EXCEPT !.io = io]
    /\ UNCHANGED <<zarrs, backend, threads, store, arrays, groups, caches>>

-----------------------------------------------------------------------------
(* array_write.rs                                                          *)

\* a store of the document without the attributes set since it was made
store_metadata_no_attributes(st, m, io) ==
    IF ~io THEN [ok |-> FALSE, st |-> st]
           ELSE [ok |-> TRUE, st |-> [st EXCEPT !.meta = [m EXCEPT !.attributes = {}]]]

\* Array::store_metadata: the handle's metadata document replaces the stored one
store_metadata(st, m, io) ==
    IF ~io THEN [ok |-> FALSE, st |-> st]
           ELSE [ok |-> TRUE, st |-> [st EXCEPT !.meta = m]]

zarrsArrayStoreMetadataImpl(st, m, io) ==
    LET r == store_metadata(st, m, io)
    IN  IF r.ok
        THEN [res |-> ZARRS_SUCCESS, msg |-> NoMsg, st |-> r.st, engine |-> TRUE]
        ELSE [res |-> ZARRS_ERROR_STORAGE, msg |-> "engine error", st |-> st, engine |-> TRUE]

\* the variants whose match arm calls zarrsArrayStoreMetadataImpl
StoreMetadataArms == {"W", "RW", "RWL"}

zarrsArrayStoreMetadata(array, io) ==
    /\ array = NULL \/ Live(array)
    /\ LET out == IF array = NULL
                  THEN [res |-> ZARRS_ERROR_NULL_PTR, msg |-> NoMsg, st |-> store,
                        engine |-> FALSE]
                  ELSE IF arrays[array].variant \in StoreMetadataArms
                  THEN zarrsArrayStoreMetadataImpl(store, arrays[array].meta, io)
                  ELSE [res |-> ZARRS_ERROR_STORAGE_CAPABILITY,
                        msg |-> "storage does not have write capability",
                        st |-> store, engine |-> FALSE]
       IN  /\ store' = out.st
           /\ lastError' = Written(out.msg)
           /\ last' = [Call("zarrsArrayStoreMetadata", array, 0, <<>>, <<>>, <<>>, 0,
                            <<>>, <<>>, out.res, out.engine, out.st # store, FALSE)
                       EXCEPT !.io = io]
    /\ UNCHANGED <<zarrs, backend, threads, arrays, groups, caches>>

\* a store that always writes the first chunk key
store_chunk_first_key(st, m, idx, bytes, io) ==
    IF \/ ~InGrid(m, idx)
       \/ Len(bytes) # Product(m.chunk) * fixed_size(m.data_type)
       \/ ~io
    THEN [ok |-> FALSE, st |-> st]
    ELSE [ok |-> TRUE,
          st |-> [st EXCEPT !.chunks[0] = IF IsFill(m, bytes) THEN <<>>
                                          ELSE encode(m, bytes)]]

\* Array::store_chunk: a chunk holding only the fill value is erased, not stored
store_chunk(st, m, idx, bytes, io) ==
    IF \/ ~InGrid(m, idx)
       \/ Len(bytes) # Product(m.chunk) * fixed_size(m.data_type)
       \/ ~io
    THEN [ok |-> FALSE, st |-> st]
    ELSE [ok |-> TRUE,
          st |-> [st EXCEPT !.chunks[idx[1]] = IF IsFill(m, bytes) THEN <<>>
                                               ELSE encode(m, bytes)]]

zarrsArrayStoreChunkImpl(st, m, chunk_indices, chunk_bytes, io) ==
    LET r == store_chunk(st, m, chunk_indices, chunk_bytes, io)
    IN  IF ~r.ok
        THEN [res |-> ZARRS_ERROR_ARRAY, msg |-> "engine error", st |-> st, engine |-> TRUE]
        ELSE [res |-> ZARRS_SUCCESS, msg |-> NoMsg, st |-> r.st, engine |-> TRUE]

\* the variants whose match arm calls zarrsArrayStoreChunkImpl
StoreChunkArms == {"W", "RW", "RWL"}

Rejected(res, msg) == [res |-> res, msg |-> msg, st |-> store, engine |-> FALSE]

\* the body of zarrsArrayStoreChunk after the null check
StoreChunkChecked(v, m, chunk_indices, chunk_bytes, io) ==
    LET shape == chunk_shape(m, chunk_indices)
        data_type_size == fixed_size(m.data_type)
        chunk_size == Product(shape.shape) * data_type_size
    IN  IF ~shape.ok
        THEN Rejected(ZARRS_ERROR_INVALID_INDICES, "engine error")
        ELSE IF data_type_size = 0
        THEN Rejected(ZARRS_ERROR_UNSUPPORTED_DATA_TYPE,
                      "variable size data types are not supported")
        ELSE IF Len(chunk_bytes) # chunk_size
        THEN Rejected(ZARRS_ERROR_BUFFER_LENGTH,
                      "chunk_bytes_length does not match expected length")
        ELSE IF v \in StoreChunkArms
        THEN zarrsArrayStoreChunkImpl(store, m, chunk_indices, chunk_bytes, io)
        ELSE Rejected(ZARRS_ERROR_STORAGE_CAPABILITY,
                      "storage does not have write capability")

zarrsArrayStoreChunk(array, pChunkIndices, pChunkBytes, io) ==
    /\ array = NULL \/ Live(array)
    /\ LET out == IF array = NULL THEN Rejected(ZARRS_ERROR_NULL_PTR, NoMsg)
                  ELSE StoreChunkChecked(arrays[array].variant, arrays[array].meta,
                                         pChunkIndices, pChunkBytes, io)
       IN  /\ store' = out.st
           /\ lastError' = Written(out.msg)
           /\ last' = [Call("zarrsArrayStoreChunk", array, Len(pChunkIndices),
                            pChunkIndices, <<>>, <<>>, Len(pChunkBytes),
                            pChunkBytes, pChunkBytes, out.res, out.engine,
                            out.st # store, FALSE)
                       EXCEPT !.io = io]
    /\ UNCHANGED <<zarrs, backend, threads, arrays, groups, caches>>

-----------------------------------------------------------------------------
(* array_read_write.rs                                                     *)

\* chunk k with the bytes of element e replaced by eb
WithElem(st, m, e, eb) ==
    LET c   == m.chunk[1]
        fs  == fixed_size(m.data_type)
        old == ChunkBytes(st, m, e \div c)
        new == [i \in 1..Len(old) |->
                   IF i > (e % c) * fs /\ i <= ((e % c) + 1) * fs
                   THEN eb[i - ((e % c) * fs)] ELSE old[i]]
    IN  [st EXCEPT !.chunks[e \div c] = IF IsFill(m, new) THEN <<>> ELSE encode(m, new)]

RECURSIVE WithRange(_, _, _, _)
WithRange(st, m, e, bytes) ==
    LET fs == fixed_size(m.data_type)
    IN  IF bytes = <<>> THEN st
        ELSE WithRange(WithElem(st, m, e, SubSeq(bytes, 1, fs)), m, e + 1,
                       SubSeq(bytes, fs + 1, Len(bytes)))

\* Array::store_array_subset: validates the subset and the byte count, then
\* rewrites every chunk the subset meets (reading it first when it is only
\* partly covered)
store_array_subset(st, m, start, shape, bytes, io) ==
    IF \/ ~InArray(m, start, shape)
       \/ fixed_size(m.data_type) = 0
       \/ Len(bytes) # Product(shape) * fixed_size(m.data_type)
       \/ ~io
    THEN [ok |-> FALSE, st |-> st]
    ELSE [ok |-> TRUE, st |-> WithRange(st, m, start[1], bytes)]

zarrsArrayStoreSubsetImpl(st, m, start, shape, subset_bytes, io) ==
    LET r == store_array_subset(st, m, start, shape, subset_bytes, io)
    IN  IF ~r.ok
        THEN [res |-> ZARRS_ERROR_ARRAY, msg |-> "engine error", st |-> st, engine |-> TRUE]
        ELSE [res |-> ZARRS_SUCCESS, msg |-> NoMsg, st |-> r.st, engine |-> TRUE]

\* a dispatch with an arm for every Writable variant
ArmsWithW == {"W", "RW", "RWL"}

\* the variants whose match arm calls zarrsArrayStoreSubsetImpl
StoreSubsetArms == {"RW", "RWL"}

zarrsArrayStoreSubset(array, pSubsetStart, pSubsetShape, pSubsetBytes, io) ==
    /\ array = NULL \/ Live(array)
    /\ LET out == IF array = NULL THEN Rejected(ZARRS_ERROR_NULL_PTR, NoMsg)
                  ELSE IF arrays[array].variant \in StoreSubsetArms
                  THEN zarrsArrayStoreSubsetImpl(store, arrays[array].meta,
                           pSubsetStart, pSubsetShape, pSubsetBytes, io)
                  ELSE Rejected(ZARRS_ERROR_STORAGE_CAPABILITY,
                                "storage does not have read/write capability")
       IN  /\ store' = out.st
           /\ lastError' = Written(out.msg)
           /\ last' = [Call("zarrsArrayStoreSubset", array, Len(pSubsetStart),
                            <<>>, pSubsetStart, pSubsetShape, Len(pSubsetBytes),
                            pSubsetBytes, pSubsetBytes, out.res, out.engine,
                            out.st # store, FALSE)
                       EXCEPT !.io = io]
    /\ UNCHANGED <<zarrs, backend, threads, arrays, groups, caches>>

-----------------------------------------------------------------------------
(* array.rs: handles                                                       *)

\* the paths callers pass: the node of the hierarchy, and a path that is not
\* a node path (it lacks the leading slash)
Paths == {"/", "node"}

\* path.into(): the engine takes the path as a NodePath
NodePath_ok(path) == path = "/"

\* Array::open: reads the metadata document stored at the path
Array_open(st, path, io) ==
    IF NodePath_ok(path) /\ io /\ st.meta.node_type = "array"
    THEN [ok |-> TRUE, meta |-> st.meta]
    ELSE [ok |-> FALSE, meta |-> NoMeta]

\* Array::new_with_metadata: builds the array in memory, nothing is stored
Array_new_with_metadata(path, meta) ==
    IF NodePath_ok(path) /\ \A d \in 1..Len(meta.shape) : meta.chunk[d] > 0
    THEN [ok |-> TRUE, meta |-> meta]
    ELSE [ok |-> FALSE, meta |-> NoMeta]

\* the storage variants the if-let of zarrsOpenArrayRW / zarrsCreateArrayRW accepts
OpenArrayArms == {"RW"}

Handle(v, meta) == [variant |-> v, meta |-> meta]

\* an open that serves every readable storage handle and boxes the array in
\* the variant of the storage handle
zarrsOpenArrayAnyBody(storage, path, io) ==
    IF storage = NULL
    THEN [res |-> ZARRS_ERROR_NULL_PTR, msg |-> "storage is null", new |-> NullArray,
          engine |-> FALSE]
    ELSE IF "Readable" \in Caps(storage)
    THEN LET r == Array_open(store, path, io)
         IN  IF r.ok
             THEN [res |-> ZARRS_SUCCESS, msg |-> NoMsg,
                   new |-> Handle(storage, r.meta), engine |-> TRUE]
             ELSE [res |-> ZARRS_ERROR_ARRAY, msg |-> "engine error",
                   new |-> NullArray, engine |-> TRUE]
    ELSE [res |-> ZARRS_ERROR_STORAGE_CAPABILITY,
          msg |-> "storage does not support read and write", new |-> NullArray,
          engine |-> FALSE]

\* what an open or create call returns: the result, the message, and the
\* handle written through pArray (NullArray when pArray is not written)
zarrsOpenArrayRWBody(storage, path, io) ==
    IF storage = NULL
    THEN [res |-> ZARRS_ERROR_NULL_PTR, msg |-> "storage is null", new |-> NullArray,
          engine |-> FALSE]
    ELSE IF storage \in OpenArrayArms
    THEN LET r == Array_open(store, path, io)
         IN  IF r.ok
             THEN [res |-> ZARRS_SUCCESS, msg |-> NoMsg,
                   new |-> Handle("RW", r.meta), engine |-> TRUE]
             ELSE [res |-> ZARRS_ERROR_ARRAY, msg |-> "engine error",
                   new |-> NullArray, engine |-> TRUE]
    ELSE [res |-> ZARRS_ERROR_STORAGE_CAPABILITY,
          msg |-> "storage does not support read and write", new |-> NullArray,
          engine |-> FALSE]

\* pArray names a free handle slot
Free(a) == a \in ArraySlots /\ arrays[a].variant = "null"

\* the record of an open or create call: variant is the storage handle's
OpenCall(op, storage, out) ==
    [NoCall EXCEPT
        !.op = op, !.variant = IF storage = NULL THEN "null" ELSE storage,
        !.res = out.res, !.engine = out.engine,
        !.outw = out.new.variant # "null"]

zarrsOpenArrayRW(storage, path, pArray, io) ==
    /\ Free(pArray)
    /\ ValidStorage(storage)
    /\ LET out == zarrsOpenArrayRWBody(storage, path, io)
       IN  /\ arrays' = [arrays EXCEPT ![pArray] = out.new]
           /\ backend' = IF out.res = ZARRS_SUCCESS THEN Arc_clone(backend)
                                                    ELSE backend
           /\ lastError' = Written(out.msg)
           /\ last' = [OpenCall("zarrsOpenArrayRW", storage, out)
                       EXCEPT !.io = io, !.h = pArray]
    /\ UNCHANGED <<zarrs, threads, store, groups, caches>>

\* a create that boxes the handle before the metadata text is validated
zarrsCreateArrayRWEager(storage, path, metadata) ==
    IF storage = NULL
    THEN [res |-> ZARRS_ERROR_NULL_PTR, msg |-> "storage is null", new |-> NullArray,
          engine |-> FALSE]
    ELSE LET parsed == ArrayMetadata_try_from(metadata)
         IN  [res |-> IF parsed.ok THEN ZARRS_SUCCESS ELSE ZARRS_ERROR_INVALID_METADATA,
              msg |-> IF parsed.ok THEN NoMsg ELSE "engine error",
              new |-> Handle("RW", metadata), engine |-> FALSE]

zarrsCreateArrayRWBody(storage, path, metadata) ==
    IF storage = NULL
    THEN [res |-> ZARRS_ERROR_NULL_PTR, msg |-> "storage is null", new |-> NullArray,
          engine |-> FALSE]
    ELSE LET parsed == ArrayMetadata_try_from(metadata)
         IN  IF ~parsed.ok
             THEN [res |-> ZARRS_ERROR_INVALID_METADATA, msg |-> "engine error",
                   new |-> NullArray, engine |-> FALSE]
             ELSE IF storage \in OpenArrayArms
             THEN LET r == Array_new_with_metadata(path, parsed.meta)
                  IN  IF r.ok
                      THEN [res |-> ZARRS_SUCCESS, msg |-> NoMsg,
                            new |-> Handle("RW", r.meta), engine |-> TRUE]
                      ELSE [res |-> ZARRS_ERROR_ARRAY, msg |-> "engine error",
                            new |-> NullArray, engine |-> TRUE]
             ELSE [res |-> ZARRS_ERROR_STORAGE_CAPABILITY,
                   msg |-> "storage does not support read and write",
                   new |-> NullArray, engine |-> FALSE]

zarrsCreateArrayRW(storage, path, metadata, pArray) ==
    /\ Free(pArray)
    /\ ValidStorage(storage)
    /\ LET out == zarrsCreateArrayRWBody(storage, path, metadata)
       IN  /\ arrays' = [arrays EXCEPT ![pArray] = out.new]
           /\ backend' = IF out.res = ZARRS_SUCCESS THEN Arc_clone(backend)
                                                    ELSE backend
           /\ lastError' = Written(out.msg)
           /\ last' = [OpenCall("zarrsCreateArrayRW", storage, out) EXCEPT !.h = pArray]
    /\ UNCHANGED <<zarrs, threads, store, groups, caches>>

\* ZarrsArray_T(ZarrsArrayEnum::V(array)): the public tuple struct lets a Rust
\* caller box an engine array of any variant as a handle
ZarrsArray_T(v, meta, pArray) ==
    /\ Free(pArray)
    /\ v \in Variants
    /\ ArrayMetadata_try_from(meta).ok
    /\ arrays' = [arrays EXCEPT ![pArray] = Handle(v, meta)]
    /\ last' = [NoCall EXCEPT !.op = "ZarrsArray_T", !.h = pArray, !.variant = v,
                              !.outw = TRUE]
    /\ backend' = Arc_clone(backend)
    /\ UNCHANGED <<zarrs, threads, store, groups, caches, lastError>>

zarrsDestroyArray(array) ==
    /\ array = NULL \/ Live(array)
    /\ arrays' = IF array = NULL THEN arrays ELSE [arrays EXCEPT ![array] = NullArray]
    /\ last' = Call("zarrsDestroyArray", array, 0, <<>>, <<>>, <<>>, 0, <<>>, <<>>,
                    IF array = NULL THEN ZARRS_ERROR_NULL_PTR ELSE ZARRS_SUCCESS,
                    FALSE, FALSE, FALSE)
    /\ backend' = IF array = NULL THEN backend ELSE Arc_drop(backend)
    /\ UNCHANGED <<zarrs, threads, store, groups, caches, lastError>>

-----------------------------------------------------------------------------
(* array.rs: queries.  A query returns the result, the message and the     *)
(* value written through its out-parameter (w: whether it is written).     *)

Answer(res, msg, w, v) == [res |-> res, msg |-> msg, w |-> w, v |-> v]

Query(op, array, dim, idx, shape, a) ==
    /\ lastError' = Written(a.msg)
    /\ last' = [Call(op, array, dim, idx, <<>>, shape, 0, <<>>, <<>>, a.res,
                     FALSE, FALSE, a.w) EXCEPT !.outv = a.v]
    /\ UNCHANGED <<zarrs, backend, threads, store, arrays, groups, caches>>

NullAnswer == Answer(ZARRS_ERROR_NULL_PTR, NoMsg, FALSE, <<>>)

zarrsArrayGetShapeBody(m, dimensionality_) ==
    IF Len(m.shape) # dimensionality_
    THEN Answer(ZARRS_ERROR_INCOMPATIBLE_DIMENSIONALITY, NoMsg, FALSE, <<>>)
    ELSE Answer(ZARRS_SUCCESS, NoMsg, TRUE, m.shape)

zarrsArrayGetShape(array, dimensionality_) ==
    /\ array = NULL \/ Live(array)
    /\ Query("zarrsArrayGetShape", array, dimensionality_, <<>>, <<>>,
             IF array = NULL THEN NullAnswer
             ELSE zarrsArrayGetShapeBody(arrays[array].meta, dimensionality_))

\* a chunk size counted in elements
chunk_element_count(m, chunk_indices) ==
    LET shape == chunk_shape(m, chunk_indices)
    IN  IF ~shape.ok
        THEN Answer(ZARRS_ERROR_INVALID_INDICES, "engine error", FALSE, <<>>)
        ELSE IF fixed_size(m.data_type) = 0
        THEN Answer(ZARRS_ERROR_UNSUPPORTED_DATA_TYPE,
                    "variable size data types are not supported", FALSE, <<>>)
        ELSE Answer(ZARRS_SUCCESS, NoMsg, TRUE, <<Product(shape.shape)>>)

zarrsArrayGetChunkSizeBody(m, chunk_indices) ==
    LET shape == chunk_shape(m, chunk_indices)
        data_type_size == fixed_size(m.data_type)
    IN  IF ~shape.ok
        THEN Answer(ZARRS_ERROR_INVALID_INDICES, "engine error", FALSE, <<>>)
        ELSE IF data_type_size = 0
        THEN Answer(ZARRS_ERROR_UNSUPPORTED_DATA_TYPE,
                    "variable size data types are not supported", FALSE, <<>>)
        ELSE Answer(ZARRS_SUCCESS, NoMsg, TRUE,
                    <<Product(shape.shape) * data_type_size>>)

zarrsArrayGetChunkSize(array, pChunkIndices) ==
    /\ array = NULL \/ Live(array)
    /\ Query("zarrsArrayGetChunkSize", array, Len(pChunkIndices), pChunkIndices, <<>>,
             IF array = NULL THEN NullAnswer
             ELSE zarrsArrayGetChunkSizeBody(arrays[array].meta, pChunkIndices))

zarrsArrayGetChunkShapeBody(m, chunk_indices) ==
    LET shape == chunk_shape(m, chunk_indices)
    IN  IF ~shape.ok
        THEN Answer(ZARRS_ERROR_INVALID_INDICES, "engine error", FALSE, <<>>)
        ELSE Answer(ZARRS_SUCCESS, NoMsg, TRUE, shape.shape)

zarrsArrayGetChunkShape(array, pChunkIndices) ==
    /\ array = NULL \/ Live(array)
    /\ Query("zarrsArrayGetChunkShape", array, Len(pChunkIndices), pChunkIndices, <<>>,
             IF array = NULL THEN NullAnswer
             ELSE zarrsArrayGetChunkShapeBody(arrays[array].meta, pChunkIndices))

\* a product or sum of machine words: the value when it fits the word, else
\* what the build makes of the overflow: a panic with overflow checks (debug
\* profile), the value modulo 2^w without them (release profile)
Wrapped(n) == n % (MaxWord + 1)

\* Iterator::product::<u64>() followed by a multiplication by size: 0 - 1
\* when a partial product leaves the word
RECURSIVE checked_product(_, _)
checked_product(s, acc) ==
    IF acc > MaxWord THEN 0 - 1
    ELSE IF s = <<>> THEN acc
    ELSE checked_product(Tail(s), acc * Head(s))

zarrsArrayGetSubsetSizeBody(m, subset_shape, overflow_checks) ==
    LET data_type_size == fixed_size(m.data_type)
        size == checked_product(subset_shape \o <<data_type_size>>, 1)
    IN  IF data_type_size = 0
        THEN Answer(ZARRS_ERROR_UNSUPPORTED_DATA_TYPE,
                    "variable size data types are not supported", FALSE, <<>>)
        ELSE IF size < 0 /\ overflow_checks
        THEN Answer(PANIC, NoMsg, FALSE, <<>>)
        ELSE Answer(ZARRS_SUCCESS, NoMsg, TRUE,
                    <<Wrapped(Product(subset_shape) * data_type_size)>>)

zarrsArrayGetSubsetSize(array, pSubsetShape) ==
    /\ array = NULL \/ Live(array)
    /\ \E overflow_checks \in BOOLEAN :
          Query("zarrsArrayGetSubsetSize", array, Len(pSubsetShape), <<>>, pSubsetShape,
                IF array = NULL THEN NullAnswer
                ELSE zarrsArrayGetSubsetSizeBody(arrays[array].meta, pSubsetShape,
                                                 overflow_checks))

\* a range of chunks that runs to the chunk holding the subset's end bound
chunks_to_end_bound(m, start, end) ==
    IF Len(start) # Len(m.shape)
    THEN [kind |-> "Err", start |-> <<>>, shape |-> <<>>]
    ELSE IF \E d \in 1..Len(start) : end[d] <= start[d]
    THEN [kind |-> "Some", start |-> [d \in 1..Len(start) |-> 0],
          shape |-> [d \in 1..Len(start) |-> 0]]
    ELSE IF \E d \in 1..Len(start) : start[d] >= m.shape[d]
    THEN [kind |-> "None", start |-> <<>>, shape |-> <<>>]
    ELSE LET first == [d \in 1..Len(start) |-> start[d] \div m.chunk[d]]
             final == [d \in 1..Len(start) |-> end[d] \div m.chunk[d]]
         IN  [kind |-> "Some", start |-> first,
              shape |-> [d \in 1..Len(start) |-> final[d] - first[d] + 1]]

\* Array::chunks_in_array_subset on a regular grid, the subset given by its
\* ranges start[d]..end[d]: Err when the subset has not the array's
\* dimensionality; the empty range for an empty subset; None when the subset
\* starts outside the array; else the chunks from the one holding the first
\* element to the one holding the last, the last chunk of the grid when the
\* subset ends outside the array
chunks_in_array_subset(m, start, end) ==
    IF Len(start) # Len(m.shape)
    THEN [kind |-> "Err", start |-> <<>>, shape |-> <<>>]
    ELSE IF \E d \in 1..Len(start) : end[d] <= start[d]
    THEN [kind |-> "Some", start |-> [d \in 1..Len(start) |-> 0],
          shape |-> [d \in 1..Len(start) |-> 0]]
    ELSE IF \E d \in 1..Len(start) : start[d] >= m.shape[d]
    THEN [kind |-> "None", start |-> <<>>, shape |-> <<>>]
    ELSE LET first == [d \in 1..Len(start) |-> start[d] \div m.chunk[d]]
             final == [d \in 1..Len(start) |->
                          IF end[d] > m.shape[d]
                          THEN chunk_grid_shape(m)[d] - 1
                          ELSE (end[d] - 1) \div m.chunk[d]]
         IN  [kind |-> "Some", start |-> first,
              shape |-> [d \in 1..Len(start) |-> final[d] - first[d] + 1]]

\* the ranges start..start + shape; the sum leaves the word for some dimension
zarrsArrayGetChunksInSubsetBody(m, subset_start, subset_shape, overflow_checks) ==
    LET dims == 1..Len(subset_start)
        end == [d \in dims |-> Wrapped(subset_start[d] + subset_shape[d])]
        chunks == chunks_in_array_subset(m, subset_start, end)
    IN  IF overflow_checks /\ \E d \in dims : subset_start[d] + subset_shape[d] > MaxWord
        THEN Answer(PANIC, NoMsg, FALSE, <<>>)
        ELSE IF chunks.kind = "Some"
        THEN Answer(ZARRS_SUCCESS, NoMsg, TRUE, <<chunks.start, chunks.shape>>)
        ELSE IF chunks.kind = "None"
        THEN Answer(ZARRS_ERROR_UNKNOWN_INTERSECTING_CHUNKS, NoMsg, FALSE, <<>>)
        ELSE Answer(ZARRS_ERROR_INCOMPATIBLE_DIMENSIONALITY, NoMsg, FALSE, <<>>)

zarrsArrayGetChunksInSubset(array, pSubsetStart, pSubsetShape) ==
    /\ array = NULL \/ Live(array)
    /\ \E overflow_checks \in BOOLEAN :
          LET a == IF array = NULL THEN NullAnswer
                   ELSE zarrsArrayGetChunksInSubsetBody(arrays[array].meta, pSubsetStart,
                                                        pSubsetShape, overflow_checks)
          IN  /\ lastError' = Written(a.msg)
              /\ last' = [Call("zarrsArrayGetChunksInSubset", array, Len(pSubsetStart),
                               <<>>, pSubsetStart, pSubsetShape, 0, <<>>, <<>>, a.res,
                               FALSE, FALSE, a.w) EXCEPT !.outv = a.v]
    /\ UNCHANGED <<zarrs, backend, threads, store, arrays, groups, caches>>

-----------------------------------------------------------------------------
(* array.rs: attributes.  A JSON text is its sequence of tokens; a parsed  *)
(* object is the set of its <<key, value>> members, one per key.           *)

Digits == {"1", "2"}
Keys == {"a", "b"}

\* Map::insert: the member replaces an earlier member with the same key
Insert(map, k, v) == { p \in map : p[1] # k } \cup { <<k, v>> }

\* the members of an object after its opening brace, up to the closing brace
RECURSIVE Members(_, _)
Members(toks, map) ==
    IF /\ Len(toks) >= 4
       /\ toks[1] \in Keys /\ toks[2] = ":" /\ toks[3] \in Digits
    THEN LET m == Insert(map, toks[1], toks[3])
         IN  IF toks[4] = "}" /\ Len(toks) = 4
             THEN [ok |-> TRUE, kind |-> "object", map |-> m]
             ELSE IF toks[4] = ","
             THEN Members(SubSeq(toks, 5, Len(toks)), m)
             ELSE [ok |-> FALSE, kind |-> "none", map |-> {}]
    ELSE [ok |-> FALSE, kind |-> "none", map |-> {}]

\* serde_json::from_str::<serde_json::Value>
serde_json_from_str(text) ==
    IF text = <<"{", "}">>
    THEN [ok |-> TRUE, kind |-> "object", map |-> {}]
    ELSE IF Len(text) > 1 /\ text[1] = "{"
    THEN Members(Tail(text), {})
    ELSE IF Len(text) = 1 /\ text[1] \in Digits
    THEN [ok |-> TRUE, kind |-> "number", map |-> {}]
    ELSE IF \/ text = <<"[", "]">>
            \/ Len(text) = 3 /\ text[1] = "[" /\ text[2] \in Digits /\ text[3] = "]"
    THEN [ok |-> TRUE, kind |-> "array", map |-> {}]
    ELSE [ok |-> FALSE, kind |-> "none", map |-> {}]

\* the let-else of the attribute setters: Ok(Value::Object(attributes))
IsObject(parsed) == parsed.ok /\ parsed.kind = "object"

\* a setter that merges the object into the attributes, member by member
MergeAttributes(old, text) ==
    LET parsed == serde_json_from_str(text)
    IN  IF ~IsObject(parsed)
        THEN [res |-> ZARRS_ERROR_INVALID_METADATA,
              msg |-> "error interpreting attributes to a json map", attrs |-> old]
        ELSE [res |-> ZARRS_SUCCESS, msg |-> NoMsg,
              attrs |-> { p \in old : \A q \in parsed.map : q[1] # p[1] }
                        \cup parsed.map]

\* the setter's answer: the result, the message and the attributes it leaves
zarrsArraySetAttributesBody(old, text) ==
    LET parsed == serde_json_from_str(text)
    IN  IF ~IsObject(parsed)
        THEN [res |-> ZARRS_ERROR_INVALID_METADATA,
              msg |-> "error interpreting attributes to a json map", attrs |-> old]
        ELSE [res |-> ZARRS_SUCCESS, msg |-> NoMsg, attrs |-> parsed.map]

\* a setter that writes the new attributes through to the stored document
zarrsArraySetAttributesThrough(array, attributes) ==
    /\ array = NULL \/ Live(array)
    /\ LET old == IF array = NULL THEN {} ELSE arrays[array].meta.attributes
           out == IF array = NULL
                  THEN [res |-> ZARRS_ERROR_NULL_PTR, msg |-> NoMsg, attrs |-> old]
                  ELSE zarrsArraySetAttributesBody(old, attributes)
       IN  /\ arrays' = IF array = NULL THEN arrays
                        ELSE [arrays EXCEPT ![array].meta.attributes = out.attrs]
           /\ store' = IF array = NULL \/ store.meta.node_type # "array" THEN store
                       ELSE [store EXCEPT !.meta.attributes = out.attrs]
           /\ lastError' = Written(out.msg)
           /\ last' = [Call("zarrsArraySetAttributes", array, 0, <<>>, <<>>, <<>>, 0,
                            <<>>, <<>>, out.res, FALSE, FALSE, FALSE)
                       EXCEPT !.text = attributes, !.before = old]
    /\ UNCHANGED <<zarrs, backend, threads, groups, caches>>

zarrsArraySetAttributes(array, attributes) ==
    /\ array = NULL \/ Live(array)
    /\ LET old == IF array = NULL THEN {} ELSE arrays[array].meta.attributes
           out == IF array = NULL
                  THEN [res |-> ZARRS_ERROR_NULL_PTR, msg |-> NoMsg, attrs |-> old]
                  ELSE zarrsArraySetAttributesBody(old, attributes)
       IN  /\ arrays' = IF array = NULL THEN arrays
                        ELSE [arrays EXCEPT ![array].meta.attributes = out.attrs]
           /\ lastError' = Written(out.msg)
           /\ last' = [Call("zarrsArraySetAttributes", array, 0, <<>>, <<>>, <<>>, 0,
                            <<>>, <<>>, out.res, FALSE, FALSE, FALSE)
                       EXCEPT !.text = attributes, !.before = old]
    /\ UNCHANGED <<zarrs, backend, threads, store, groups, caches>>

\* the keys in the order the map yields them
KeyOrder == <<"a", "b">>

\* the members of the map from the k-th key on, as serde_json writes them:
\* to_string_pretty puts each member on a line of its own, indented, with a
\* space after the colon
RECURSIVE MembersText(_, _, _, _)
MembersText(map, k, pretty, first) ==
    IF k > Len(KeyOrder) THEN <<>>
    ELSE LET here == { p \in map : p[1] = KeyOrder[k] }
         IN  IF here = {} THEN MembersText(map, k + 1, pretty, first)
             ELSE LET p == CHOOSE q \in here : TRUE
                  IN  (IF first THEN <<>> ELSE <<",">>)
                      \o (IF pretty THEN <<"\n", "  ">> ELSE <<>>)
                      \o <<p[1], ":">>
                      \o (IF pretty THEN <<" ">> ELSE <<>>)
                      \o <<p[2]>>
                      \o MembersText(map, k + 1, pretty, FALSE)

\* serde_json::to_string / serde_json::to_string_pretty of an attribute map
serde_json_to_string(map, pretty) ==
    IF map = {} THEN <<"{", "}">>
    ELSE <<"{">> \o MembersText(map, 1, pretty, TRUE)
         \o (IF pretty THEN <<"\n">> ELSE <<>>) \o <<"}">>

\* the getter's answer: serialising a map of strings cannot fail and the text
\* has no NUL byte, so the CString is always made
zarrsArrayGetAttributesBody(attrs, pretty) ==
    [res |-> ZARRS_SUCCESS, msg |-> NoMsg, w |-> TRUE,
     v |-> serde_json_to_string(attrs, pretty)]

zarrsArrayGetAttributes(array, pretty) ==
    /\ array = NULL \/ Live(array)
    /\ LET out == IF array = NULL THEN NullAnswer
                  ELSE zarrsArrayGetAttributesBody(arrays[array].meta.attributes, pretty)
       IN  /\ lastError' = Written(out.msg)
           /\ last' = [Call("zarrsArrayGetAttributes", array, 0, <<>>, <<>>, <<>>, 0,
                            <<>>, <<>>, out.res, FALSE, FALSE, out.w)
                       EXCEPT !.outv = out.v, !.pretty = pretty]
    /\ UNCHANGED <<zarrs, backend, threads, store, arrays, groups, caches>>

-----------------------------------------------------------------------------
(* group.rs, group_write.rs                                                *)

NullGroup == [variant |-> "null", attributes |-> {}]

LiveGroup(g) == g \in GroupSlots /\ groups[g].variant # "null"

FreeGroup(g) == g \in GroupSlots /\ groups[g].variant = "null"

\* a group document with the given attributes
GroupDoc(attrs) == [NoMeta EXCEPT !.node_type = "group", !.attributes = attrs]

\* the group documents callers pass to zarrsCreateGroupRW, and an array
\* document, which is no group document
GroupMetaTexts ==
    { GroupDoc({}), GroupDoc({<<"a", "1">>}),
      [NoMeta EXCEPT !.node_type = "array", !.shape = <<2>>, !.chunk = <<1>>,
                     !.data_type = "uint8"] }

GroupMetadata_try_from(text) ==
    IF text.node_type = "group"
    THEN [ok |-> TRUE, meta |-> text]
    ELSE [ok |-> FALSE, meta |-> NoMeta]

\* Group::open: reads the group document stored at the path
Group_open(st, path, io) ==
    IF NodePath_ok(path) /\ io /\ st.meta.node_type = "group"
    THEN [ok |-> TRUE, attributes |-> st.meta.attributes]
    ELSE [ok |-> FALSE, attributes |-> {}]

\* Group::new_with_metadata: builds the group in memory, nothing is stored
Group_new_with_metadata(path, meta) ==
    IF NodePath_ok(path)
    THEN [ok |-> TRUE, attributes |-> meta.attributes]
    ELSE [ok |-> FALSE, attributes |-> {}]

\* the storage variants the if-let of zarrsOpenGroupRW / zarrsCreateGroupRW accepts
OpenGroupArms == {"RW"}

GroupHandle(v, attrs) == [variant |-> v, attributes |-> attrs]

zarrsOpenGroupRWBody(storage, path, io) ==
    IF storage = NULL
    THEN [res |-> ZARRS_ERROR_NULL_PTR, msg |-> "storage is null", new |-> NullGroup,
          engine |-> FALSE]
    ELSE IF storage \in OpenGroupArms
    THEN LET r == Group_open(store, path, io)
         IN  IF r.ok
             THEN [res |-> ZARRS_SUCCESS, msg |-> NoMsg,
                   new |-> GroupHandle("RW", r.attributes), engine |-> TRUE]
             ELSE [res |-> ZARRS_ERROR_GROUP, msg |-> "engine error",
                   new |-> NullGroup, engine |-> TRUE]
    ELSE [res |-> ZARRS_ERROR_STORAGE_CAPABILITY,
          msg |-> "storage does not support read and write", new |-> NullGroup,
          engine |-> FALSE]

zarrsOpenGroupRW(storage, path, pGroup, io) ==
    /\ FreeGroup(pGroup)
    /\ ValidStorage(storage)
    /\ LET out == zarrsOpenGroupRWBody(storage, path, io)
       IN  /\ groups' = [groups EXCEPT ![pGroup] = out.new]
           /\ backend' = IF out.res = ZARRS_SUCCESS THEN Arc_clone(backend)
                                                    ELSE backend
           /\ lastError' = Written(out.msg)
           /\ last' = [OpenCall("zarrsOpenGroupRW", storage, out)
                       EXCEPT !.io = io, !.h = pGroup]
    /\ UNCHANGED <<zarrs, threads, store, arrays, caches>>

zarrsCreateGroupRWBody(storage, path, metadata) ==
    IF storage = NULL
    THEN [res |-> ZARRS_ERROR_NULL_PTR, msg |-> "storage is null", new |-> NullGroup,
          engine |-> FALSE]
    ELSE LET parsed == GroupMetadata_try_from(metadata)
         IN  IF ~parsed.ok
             THEN [res |-> ZARRS_ERROR_INVALID_METADATA, msg |-> "engine error",
                   new |-> NullGroup, engine |-> FALSE]
             ELSE IF storage \in OpenGroupArms
             THEN LET r == Group_new_with_metadata(path, parsed.meta)
                  IN  IF r.ok
                      THEN [res |-> ZARRS_SUCCESS, msg |-> NoMsg,
                            new |-> GroupHandle("RW", r.attributes), engine |-> TRUE]
                      ELSE [res |-> ZARRS_ERROR_GROUP, msg |-> "engine error",
                            new |-> NullGroup, engine |-> TRUE]
             ELSE [res |-> ZARRS_ERROR_STORAGE_CAPABILITY,
                   msg |-> "storage does not support read and write",
                   new |-> NullGroup, engine |-> FALSE]

zarrsCreateGroupRW(storage, path, metadata, pGroup) ==
    /\ FreeGroup(pGroup)
    /\ ValidStorage(storage)
    /\ LET out == zarrsCreateGroupRWBody(storage, path, metadata)
       IN  /\ groups' = [groups EXCEPT ![pGroup] = out.new]
           /\ backend' = IF out.res = ZARRS_SUCCESS THEN Arc_clone(backend)
                                                    ELSE backend
           /\ lastError' = Written(out.msg)
           /\ last' = [OpenCall("zarrsCreateGroupRW", storage, out) EXCEPT !.h = pGroup]
    /\ UNCHANGED <<zarrs, threads, store, arrays, caches>>

\* ZarrsGroup_T(ZarrsGroupEnum::V(group)): the public tuple struct lets a Rust
\* caller box an engine group of any variant as a handle
ZarrsGroup_T(v, attrs, pGroup) ==
    /\ FreeGroup(pGroup)
    /\ v \in Variants
    /\ groups' = [groups EXCEPT ![pGroup] = GroupHandle(v, attrs)]
    /\ last' = [NoCall EXCEPT !.op = "ZarrsGroup_T", !.h = pGroup, !.variant = v,
                              !.outw = TRUE]
    /\ backend' = Arc_clone(backend)
    /\ UNCHANGED <<zarrs, threads, store, arrays, caches, lastError>>

zarrsDestroyGroup(group) ==
    /\ group = NULL \/ LiveGroup(group)
    /\ groups' = IF group = NULL THEN groups ELSE [groups EXCEPT ![group] = NullGroup]
    /\ last' = Call("zarrsDestroyGroup", group, 0, <<>>, <<>>, <<>>, 0, <<>>, <<>>,
                    IF group = NULL THEN ZARRS_ERROR_NULL_PTR ELSE ZARRS_SUCCESS,
                    FALSE, FALSE, FALSE)
    /\ backend' = IF group = NULL THEN backend ELSE Arc_drop(backend)
    /\ UNCHANGED <<zarrs, threads, store, arrays, caches, lastError>>

\* a setter that clears the attributes before it reads the text
ClearThenParse(old, text) ==
    LET parsed == serde_json_from_str(text)
    IN  IF ~IsObject(parsed)
        THEN [res |-> ZARRS_ERROR_INVALID_METADATA,
              msg |-> "error interpreting attributes to a json map", attrs |-> {}]
        ELSE [res |-> ZARRS_SUCCESS, msg |-> NoMsg, attrs |-> parsed.map]

zarrsGroupSetAttributesBody(old, text) ==
    LET parsed == serde_json_from_str(text)
    IN  IF ~IsObject(parsed)
        THEN [res |-> ZARRS_ERROR_INVALID_METADATA,
              msg |-> "error interpreting attributes to a json map", attrs |-> old]
        ELSE [res |-> ZARRS_SUCCESS, msg |-> NoMsg, attrs |-> parsed.map]

zarrsGroupSetAttributes(group, attributes) ==
    /\ group = NULL \/ LiveGroup(group)
    /\ LET old == IF group = NULL THEN {} ELSE groups[group].attributes
           out == IF group = NULL
                  THEN [res |-> ZARRS_ERROR_NULL_PTR, msg |-> NoMsg, attrs |-> old]
                  ELSE zarrsGroupSetAttributesBody(old, attributes)
       IN  /\ groups' = IF group = NULL THEN groups
                        ELSE [groups EXCEPT ![group].attributes = out.attrs]
           /\ lastError' = Written(out.msg)
           /\ last' = [Call("zarrsGroupSetAttributes", group, 0, <<>>, <<>>, <<>>, 0,
                            <<>>, <<>>, out.res, FALSE, FALSE, FALSE)
                       EXCEPT !.text = attributes, !.before = old]
    /\ UNCHANGED <<zarrs, backend, threads, store, arrays, caches>>

zarrsGroupGetAttributesBody(attrs, pretty) ==
    [res |-> ZARRS_SUCCESS, msg |-> NoMsg, w |-> TRUE,
     v |-> serde_json_to_string(attrs, pretty)]

zarrsGroupGetAttributes(group, pretty) ==
    /\ group = NULL \/ LiveGroup(group)
    /\ LET out == IF group = NULL THEN NullAnswer
                  ELSE zarrsGroupGetAttributesBody(groups[group].attributes, pretty)
       IN  /\ lastError' = Written(out.msg)
           /\ last' = [Call("zarrsGroupGetAttributes", group, 0, <<>>, <<>>, <<>>, 0,
                            <<>>, <<>>, out.res, FALSE, FALSE, out.w)
                       EXCEPT !.outv = out.v, !.pretty = pretty]
    /\ UNCHANGED <<zarrs, backend, threads, store, arrays, groups, caches>>

\* Group::store_metadata: the handle's group document replaces the stored one
Group_store_metadata(st, g, io) ==
    IF ~io THEN [ok |-> FALSE, st |-> st]
           ELSE [ok |-> TRUE, st |-> [st EXCEPT !.meta = GroupDoc(g.attributes)]]

zarrsGroupStoreMetadataImpl(st, g, io) ==
    LET r == Group_store_metadata(st, g, io)
    IN  IF r.ok
        THEN [res |-> ZARRS_SUCCESS, msg |-> NoMsg, st |-> r.st, engine |-> TRUE]
        ELSE [res |-> ZARRS_ERROR_STORAGE, msg |-> "engine error", st |-> st, engine |-> TRUE]

\* the variants whose match arm calls zarrsGroupStoreMetadataImpl
GroupStoreMetadataArms == {"W", "RW", "RWL"}

zarrsGroupStoreMetadata(group, io) ==
    /\ group = NULL \/ LiveGroup(group)
    /\ LET out == IF group = NULL
                  THEN [res |-> ZARRS_ERROR_NULL_PTR, msg |-> NoMsg, st |-> store,
                        engine |-> FALSE]
                  ELSE IF groups[group].variant \in GroupStoreMetadataArms
                  THEN zarrsGroupStoreMetadataImpl(store, groups[group], io)
                  ELSE [res |-> ZARRS_ERROR_STORAGE_CAPABILITY,
                        msg |-> "storage does not have write capability",
                        st |-> store, engine |-> FALSE]
       IN  /\ store' = out.st
           /\ lastError' = Written(out.msg)
           /\ last' = [Call("zarrsGroupStoreMetadata", group, 0, <<>>, <<>>, <<>>, 0,
                            <<>>, <<>>, out.res, out.engine, out.st # store, FALSE)
                       EXCEPT !.io = io]
    /\ UNCHANGED <<zarrs, backend, threads, arrays, groups, caches>>

-----------------------------------------------------------------------------
(* array_sharded.rs                                                        *)

\* a cache: the table of the shards' decoded indices, the thread that holds
\* the table's mutex, and how often each shard's index has been decoded
EmptyCache ==
    [live |-> TRUE, shards |-> {}, holder |-> "free", decodes |-> [k \in ChunkKeys |-> 0]]

NullCache == [EmptyCache EXCEPT !.live = FALSE]

LiveCache(c) == c \in CacheHandles /\ caches[c].live

FreeCache(c) == c \in CacheHandles /\ ~caches[c].live

\* the variants whose match arm builds an ArrayShardedReadableExtCache
CreateShardIndexCacheArms == {"R", "RW", "RWL"}

zarrsCreateShardIndexCache(array, pShardIndexCache) ==
    /\ array = NULL \/ Live(array)
    /\ FreeCache(pShardIndexCache)
    /\ LET ok  == array # NULL /\ arrays[array].variant \in CreateShardIndexCacheArms
           res == IF array = NULL THEN ZARRS_ERROR_NULL_PTR
                  ELSE IF ok THEN ZARRS_SUCCESS
                  ELSE ZARRS_ERROR_STORAGE_CAPABILITY
           msg == IF array # NULL /\ ~ok
                  THEN "storage does not have read capability" ELSE NoMsg
       IN  /\ caches' = IF ok
                        THEN [caches EXCEPT ![pShardIndexCache] = EmptyCache]
                        ELSE caches
           /\ lastError' = Written(msg)
           /\ last' = Call("zarrsCreateShardIndexCache", array, 0, <<>>, <<>>, <<>>, 0,
                           <<>>, <<>>, res, FALSE, FALSE, ok)
    /\ UNCHANGED <<zarrs, backend, threads, store, arrays, groups>>

zarrsDestroyShardIndexCache(shardIndexCache) ==
    /\ shardIndexCache = NULL \/ LiveCache(shardIndexCache)
    /\ caches' = IF shardIndexCache = NULL THEN caches
                 ELSE [caches EXCEPT ![shardIndexCache] = NullCache]
    /\ last' = [Call("zarrsDestroyShardIndexCache", NULL, 0, <<>>, <<>>, <<>>, 0,
                     <<>>, <<>>,
                     IF shardIndexCache = NULL THEN ZARRS_ERROR_NULL_PTR
                     ELSE ZARRS_SUCCESS, FALSE, FALSE, FALSE)
                EXCEPT !.cache = shardIndexCache]
    /\ UNCHANGED <<zarrs, backend, threads, store, arrays, groups, lastError>>

\* the inner chunk grid of a sharded array
subchunk_grid_shape(m) ==
    [d \in 1..Len(m.shape) |-> (m.shape[d] + m.subchunk[d] - 1) \div m.subchunk[d]]

InSubGrid(m, idx) ==
    /\ Len(idx) = Len(m.shape)
    /\ \A d \in 1..Len(idx) : idx[d] < subchunk_grid_shape(m)[d]

Cached(cache, k) == \E e \in cache.shards : e.shard = k

\* ArrayShardedReadableExtCache::retrieve: the index the table holds for the
\* shard; on a miss the shard's index is decoded from the backend and put in
\* the table
cache_retrieve(st, m, cache, k, io) ==
    IF Cached(cache, k)
    THEN [ok |-> TRUE, index |-> (CHOOSE e \in cache.shards : e.shard = k).index,
          cache |-> cache]
    ELSE IF ~io
    THEN [ok |-> FALSE, index |-> <<>>, cache |-> cache]
    ELSE LET index == decode_shard_index(m, st.chunks[k])
         IN  [ok |-> TRUE, index |-> index,
              cache |-> [cache EXCEPT !.shards = @ \cup {[shard |-> k, index |-> index]},
                                      !.decodes[k] = @ + 1]]

\* an inner chunk of a sharded array through the cache: the index from the
\* table, the bytes from the encoded shard in the backend
retrieve_subchunk_sharded(st, m, cache, idx, io) ==
    IF ~InSubGrid(m, idx)
    THEN [ok |-> FALSE, fixed |-> FALSE, bytes |-> <<>>, cache |-> cache]
    ELSE LET k == idx[1] \div SubChunks(m)
             j == (idx[1] % SubChunks(m)) + 1
             r == cache_retrieve(st, m, cache, k, io)
             d == partial_decode(m, r.index, st.chunks[k], j)
             reads == r.index # <<>> /\ r.index[j] # NoOffset
         IN  IF ~r.ok \/ (reads /\ ~io) \/ ~d.ok
             THEN [ok |-> FALSE, fixed |-> FALSE, bytes |-> <<>>, cache |-> r.cache]
             ELSE [ok |-> TRUE, fixed |-> TRUE, bytes |-> d.bytes, cache |-> r.cache]

\* a retrieval that decodes an inner chunk no shard holds: the fill value
retrieve_subchunk_unstored(st, m, cache, idx, io) ==
    LET r == retrieve_chunk([st EXCEPT !.chunks = [k \in ChunkKeys |-> <<>>]], m, idx, io)
    IN  [ok |-> r.ok, fixed |-> r.fixed, bytes |-> r.bytes, cache |-> cache]

\* ArrayShardedReadableExt::retrieve_subchunk_opt: on an array without the
\* sharding codec the inner chunk is the chunk and the cache is not consulted
retrieve_subchunk_opt(st, m, cache, idx, io) ==
    IF m.subchunk = <<>>
    THEN LET r == retrieve_chunk(st, m, idx, io)
         IN  [ok |-> r.ok, fixed |-> r.fixed, bytes |-> r.bytes, cache |-> cache]
    ELSE retrieve_subchunk_sharded(st, m, cache, idx, io)

zarrsArrayRetrieveSubChunkImpl(st, m, cache, chunk_indices, chunk_bytes_length, buf, io) ==
    LET r == retrieve_subchunk_opt(st, m, cache, chunk_indices, io)
    IN  IF ~r.ok
        THEN [res |-> ZARRS_ERROR_ARRAY, msg |-> "engine error", buf |-> buf,
              engine |-> TRUE, cache |-> r.cache]
        ELSE IF ~r.fixed
        THEN [res |-> ZARRS_ERROR_UNSUPPORTED_DATA_TYPE,
              msg |-> "variable size data types are not supported",
              buf |-> buf, engine |-> TRUE, cache |-> r.cache]
        ELSE IF Len(r.bytes) # chunk_bytes_length
        THEN [res |-> ZARRS_ERROR_BUFFER_LENGTH,
              msg |-> "chunk_bytes_length does not match decoded chunk size",
              buf |-> buf, engine |-> TRUE, cache |-> r.cache]
        ELSE [res |-> ZARRS_SUCCESS, msg |-> NoMsg,
              buf |-> ptr_copy(r.bytes, buf, chunk_bytes_length), engine |-> TRUE,
              cache |-> r.cache]

\* the variants whose match arm calls zarrsArrayRetrieveSubChunkImpl
RetrieveSubChunkArms == {"R", "RL", "RW", "RWL"}

zarrsArrayRetrieveSubChunk(array, cache, pChunkIndices, chunkBytesCount, io) ==
    /\ array = NULL \/ Live(array)
    /\ cache = NULL \/ LiveCache(cache)
    /\ LET buf == Buffer(chunkBytesCount)
           out == IF array = NULL \/ cache = NULL THEN NullPtr(buf)
                  ELSE IF arrays[array].variant \in RetrieveSubChunkArms
                  THEN zarrsArrayRetrieveSubChunkImpl(store, arrays[array].meta,
                           caches[cache], pChunkIndices, chunkBytesCount, buf, io)
                  ELSE NoCapability("storage does not have read capability", buf)
       IN  /\ lastError' = Written(out.msg)
           /\ last' = [Call("zarrsArrayRetrieveSubChunk", array, Len(pChunkIndices),
                            pChunkIndices, <<>>, <<>>, chunkBytesCount,
                            buf, out.buf, out.res, out.engine, FALSE, FALSE)
                       EXCEPT !.cache = cache, !.io = io]
           /\ caches' = IF out.engine THEN [caches EXCEPT ![cache] = out.cache]
                                      ELSE caches
    /\ UNCHANGED <<zarrs, backend, threads, store, arrays, groups>>

\* the bytes of element e are appended to the bytes decoded so far, and the
\* cache is as the retrieval r of its inner chunk left it
ShardedJoin(m, acc, r, e) ==
    IF ~r.ok THEN [ok |-> FALSE, bytes |-> <<>>, cache |-> r.cache]
    ELSE [ok |-> TRUE,
          bytes |-> acc.bytes
                    \o SubSeq(r.bytes,
                              ((e % m.subchunk[1]) * fixed_size(m.data_type)) + 1,
                              ((e % m.subchunk[1]) + 1) * fixed_size(m.data_type)),
          cache |-> r.cache]

\* element e of a sharded array after the elements before it
ShardedElem(st, m, acc, e, io) ==
    IF ~acc.ok THEN acc
    ELSE ShardedJoin(m, acc,
                     retrieve_subchunk_sharded(st, m, acc.cache, <<e \div m.subchunk[1]>>, io),
                     e)

\* the elements e .. e + n - 1 of a sharded array, inner chunk by inner chunk
ShardedRange(st, m, cache, e, n, io) ==
    LET Part[i \in 0..n] ==
            IF i = 0 THEN [ok |-> TRUE, bytes |-> <<>>, cache |-> cache]
            ELSE ShardedElem(st, m, Part[i - 1], e + i - 1, io)
    IN  Part[n]

\* ArrayShardedReadableExt::retrieve_array_subset_sharded_opt, likewise
retrieve_array_subset_sharded_opt(st, m, cache, start, shape, io) ==
    IF m.subchunk = <<>>
    THEN LET r == retrieve_array_subset(st, m, start, shape, io)
         IN  [ok |-> r.ok, fixed |-> r.fixed, bytes |-> r.bytes, cache |-> cache]
    ELSE IF ~InArray(m, start, shape)
    THEN [ok |-> FALSE, fixed |-> FALSE, bytes |-> <<>>, cache |-> cache]
    ELSE LET r == ShardedRange(st, m, cache, start[1], shape[1], io)
         IN  [ok |-> r.ok, fixed |-> r.ok, bytes |-> IF r.ok THEN r.bytes ELSE <<>>,
              cache |-> r.cache]

zarrsArrayRetrieveSubsetShardedImpl(st, m, cache, start, shape, subset_bytes_length, buf, io) ==
    LET r == retrieve_array_subset_sharded_opt(st, m, cache, start, shape, io)
    IN  IF ~r.ok
        THEN [res |-> ZARRS_ERROR_ARRAY, msg |-> "engine error", buf |-> buf,
              engine |-> TRUE, cache |-> r.cache]
        ELSE IF ~r.fixed
        THEN [res |-> ZARRS_ERROR_UNSUPPORTED_DATA_TYPE,
              msg |-> "variable size data types are not supported",
              buf |-> buf, engine |-> TRUE, cache |-> r.cache]
        ELSE IF Len(r.bytes) # subset_bytes_length
        THEN [res |-> ZARRS_ERROR_BUFFER_LENGTH,
              msg |-> "subset_bytes_length does not match decoded subset size",
              buf |-> buf, engine |-> TRUE, cache |-> r.cache]
        ELSE [res |-> ZARRS_SUCCESS, msg |-> NoMsg,
              buf |-> ptr_copy(r.bytes, buf, subset_bytes_length), engine |-> TRUE,
              cache |-> r.cache]

\* a dispatch that lacks the RL arm
ArmsWithoutRL == {"R", "RW", "RWL"}

\* the variants whose match arm calls zarrsArrayRetrieveSubsetShardedImpl
RetrieveSubsetShardedArms == {"R", "RL", "RW", "RWL"}

zarrsArrayRetrieveSubsetSharded(array, cache, pSubsetStart, pSubsetShape, subsetBytesCount, io) ==
    /\ array = NULL \/ Live(array)
    /\ cache = NULL \/ LiveCache(cache)
    /\ LET buf == Buffer(subsetBytesCount)
           out == IF array = NULL \/ cache = NULL THEN NullPtr(buf)
                  ELSE IF arrays[array].variant \in RetrieveSubsetShardedArms
                  THEN zarrsArrayRetrieveSubsetShardedImpl(store, arrays[array].meta,
                           caches[cache], pSubsetStart, pSubsetShape,
                           subsetBytesCount, buf, io)
                  ELSE NoCapability("storage does not have read capability", buf)
       IN  /\ lastError' = Written(out.msg)
           /\ last' = [Call("zarrsArrayRetrieveSubsetSharded", array, Len(pSubsetStart),
                            <<>>, pSubsetStart, pSubsetShape, subsetBytesCount,
                            buf, out.buf, out.res, out.engine, FALSE, FALSE)
                       EXCEPT !.cache = cache, !.io = io]
           /\ caches' = IF out.engine THEN [caches EXCEPT ![cache] = out.cache]
                                      ELSE caches
    /\ UNCHANGED <<zarrs, backend, threads, store, arrays, groups>>

-----------------------------------------------------------------------------
(* lib.rs: LAST_ERROR under threads.  LAST_ERROR is a Mutex<String>.  A     *)
(* failing call locks it, assigns the message and drops the guard;          *)
(* zarrsLastError locks it, copies the text and drops the guard.  Assigning *)
(* or copying a String is not one machine step, so here the text is kept by *)
(* its two halves and written and copied a half at a time.                  *)

Threads == {"t1", "t2"}

\* failing calls a thread makes at most
MaxCalls == 2

\* the halves of a message text
Halves(msg) ==
    CASE msg = "storage does not have read capability" ->
             <<"storage does not have", " read capability">>
      [] msg = "storage is null" -> <<"storage", " is null">>
      [] msg = "error interpreting attributes to a json map" ->
             <<"error interpreting", " attributes to a json map">>
      [] OTHER -> <<"", "">>

\* the messages of the failing calls the threads make:
\* zarrsArrayRetrieveChunk on a handle without Readable, zarrsOpenArrayRW on a
\* null storage, zarrsArraySetAttributes with a text that is no object
ThreadMessages ==
    {"storage does not have read capability", "storage is null",
     "error interpreting attributes to a json map"}

\* a cached retrieval a thread makes: the call, its handles and its arguments
NoRead ==
    [op |-> "none", h |-> NULL, cache |-> NULL, idx |-> <<>>, start |-> <<>>,
     shape |-> <<>>, count |-> 0]

\* what a thread's cached retrieval returned: the result and the caller's buffer
NoRet == [res |-> "none", buf |-> <<>>]

\* no thread is inside a call; holder is the thread that holds the mutex,
\* landed the message of the last assignment that completed, seen[t] the
\* value of landed when t's zarrsLastError took the lock, got[t] what t's
\* zarrsLastError copied; of a thread's cached retrieval req[t] is the call,
\* pos[t] the elements of its region decoded so far, index[t] the shard index
\* it holds, acc[t] the bytes decoded so far and ret[t] what it returned
NoThreads ==
    [pc     |-> [t \in Threads |-> "idle"],
     msg    |-> [t \in Threads |-> ""],
     got    |-> [t \in Threads |-> <<>>],
     seen   |-> [t \in Threads |-> ""],
     calls  |-> [t \in Threads |-> 0],
     holder |-> "free",
     landed |-> "",
     req    |-> [t \in Threads |-> NoRead],
     pos    |-> [t \in Threads |-> 0],
     index  |-> [t \in Threads |-> <<>>],
     acc    |-> [t \in Threads |-> <<>>],
     ret    |-> [t \in Threads |-> NoRet]]

\* a lock that any thread can take while another holds it
NoMutex(t) == TRUE

\* Mutex::lock: the calling thread blocks until no thread holds the mutex
MutexFree(t) == threads.holder = "free"

\* a failing call reaches its error arm: LAST_ERROR.lock().unwrap()
FailLock(t, m) ==
    /\ threads.pc[t] = "idle"
    /\ threads.calls[t] < MaxCalls
    /\ MutexFree(t)
    /\ threads' = [threads EXCEPT !.pc[t] = "assign1", !.msg[t] = m, !.holder = t,
                                  !.calls[t] = @ + 1]
    /\ UNCHANGED <<zarrs, backend, store, arrays, groups, caches, lastError, last>>

\* *guard = message, first half
FailAssignHead(t) ==
    /\ threads.pc[t] = "assign1"
    /\ lastError' = [lastError EXCEPT ![1] = Halves(threads.msg[t])[1]]
    /\ threads' = [threads EXCEPT !.pc[t] = "assign2"]
    /\ UNCHANGED <<zarrs, backend, store, arrays, groups, caches, last>>

\* *guard = message, second half
FailAssignTail(t) ==
    /\ threads.pc[t] = "assign2"
    /\ lastError' = [lastError EXCEPT ![2] = Halves(threads.msg[t])[2]]
    /\ threads' = [threads EXCEPT !.pc[t] = "unlock"]
    /\ UNCHANGED <<zarrs, backend, store, arrays, groups, caches, last>>

\* the guard is dropped at the end of the statement and the call returns its
\* error code
FailReturn(t) ==
    /\ threads.pc[t] = "unlock"
    /\ threads' = [threads EXCEPT !.pc[t] = "failed",
                                  !.holder = IF @ = t THEN "free" ELSE @,
                                  !.landed = threads.msg[t]]
    /\ UNCHANGED <<zarrs, backend, store, arrays, groups, caches, lastError, last>>

\* zarrsLastError: LAST_ERROR.lock().unwrap()
zarrsLastErrorLock(t) ==
    /\ threads.pc[t] = "failed"
    /\ MutexFree(t)
    /\ threads' = [threads EXCEPT !.pc[t] = "copy1", !.holder = t, !.got[t] = <<>>,
                                  !.seen[t] = threads.landed]
    /\ UNCHANGED <<zarrs, backend, store, arrays, groups, caches, lastError, last>>

\* CString::new(guard.as_str()), first half
zarrsLastErrorCopyHead(t) ==
    /\ threads.pc[t] = "copy1"
    /\ threads' = [threads EXCEPT !.pc[t] = "copy2", !.got[t] = <<lastError[1]>>]
    /\ UNCHANGED <<zarrs, backend, store, arrays, groups, caches, lastError, last>>

\* CString::new(guard.as_str()), second half; the guard is dropped and the
\* copy returned
zarrsLastErrorReturn(t) ==
    /\ threads.pc[t] = "copy2"
    /\ threads' = [threads EXCEPT !.pc[t] = "idle",
                                  !.got[t] = Append(@, lastError[2]),
                                  !.holder = IF @ = t THEN "free" ELSE @]
    /\ UNCHANGED <<zarrs, backend, store, arrays, groups, caches, lastError, last>>

-----------------------------------------------------------------------------
(* lib.rs: zarrsLastError called by one thread.                            *)

\* a read that takes the text out of LAST_ERROR and leaves it empty
zarrsLastErrorTake ==
    /\ last' = [NoCall EXCEPT !.op = "zarrsLastError", !.outv = <<lastError>>]
    /\ lastError' = ""
    /\ UNCHANGED <<zarrs, backend, store, arrays, groups, caches, threads>>

\* CString::new(LAST_ERROR.lock().unwrap().as_str()): a copy of the text
zarrsLastError ==
    /\ last' = [NoCall EXCEPT !.op = "zarrsLastError", !.outv = <<lastError>>]
    /\ UNCHANGED <<zarrs, backend, store, arrays, groups, caches, lastError, threads>>

-----------------------------------------------------------------------------
(* version.rs.  A u32 is the set of the positions of its one bits.         *)

U32(n) == { i \in 0..30 : (n \div 2^i) % 2 = 1 }

\* w << n and w >> n on 32 bits: the bits shifted out are lost
Shl(w, n) == { i + n : i \in { j \in w : j + n <= 31 } }
Shr(w, n) == { i - n : i \in { j \in w : j >= n } }
BitOr(a, b) == a \cup b
BitAnd(a, b) == a \cap b

\* the version the tests pin: major 0, minor 23
Built == [major |-> 0, minor |-> 23, patch |-> 0]

version_major == U32(zarrs.major)
version_minor == U32(zarrs.minor)
version_patch == U32(zarrs.patch)

\* an encoding that gives the minor version ten bits from bit 10
version_narrow ==
    BitOr(BitOr(Shl(version_major, 20), Shl(version_minor, 10)), version_patch)

\* zarrs::version::version()
version ==
    BitOr(BitOr(Shl(version_major, 22), Shl(version_minor, 12)), version_patch)

Returned(op, w) ==
    /\ last' = [NoCall EXCEPT !.op = op, !.outv = <<w>>]
    /\ UNCHANGED <<zarrs, backend, store, arrays, groups, caches, lastError, threads>>

zarrsVersionMajor == Returned("zarrsVersionMajor", version_major)
zarrsVersionMinor == Returned("zarrsVersionMinor", version_minor)
zarrsVersionPatch == Returned("zarrsVersionPatch", version_patch)
zarrsVersion == Returned("zarrsVersion", version)

-----------------------------------------------------------------------------
(* The state after start-up, and the calls a caller can make.              *)

Init ==
    /\ zarrs = Built
    /\ backend = Shared
    /\ store = [meta |-> NoMeta, chunks |-> [k \in ChunkKeys |-> <<>>]]
    /\ arrays = [a \in ArraySlots |-> NullArray]
    /\ groups = [g \in GroupSlots |-> NullGroup]
    /\ caches = [c \in CacheHandles |-> NullCache]
    /\ lastError = ""
    /\ threads = NoThreads
    /\ last = NoCall

Counts == 0..MaxCount

\* n bytes a caller passes where the byte count is what matters
Const(n) == [i \in 1..n |-> MaxByte]

\* buffers of every length but k
WrongLen(k) == { Const(n) : n \in Counts \ {k} }

\* <<chunk indices, byte count, io>> of the chunk retrievals a caller makes:
\* chunk 0 with every byte count, chunk 1, indices outside the grid, indices
\* of the wrong length, and a backend failure under a right and a wrong count
ChunkReads ==
    { <<<<0>>, n, TRUE>> : n \in Counts }
    \cup { <<<<1>>, 1, TRUE>>, <<<<2>>, 1, TRUE>>, <<<<0, 0>>, 1, TRUE>>,
           <<<<0>>, 1, FALSE>>, <<<<0>>, 2, FALSE>> }

\* <<start, shape, byte count, io>> of the subset retrievals: one chunk, both
\* chunks, past the end of the array, of the wrong length, a backend failure
SubsetReads ==
    { <<<<0>>, <<1>>, n, TRUE>> : n \in Counts }
    \cup { <<<<0>>, <<2>>, n, TRUE>> : n \in Counts }
    \cup { <<<<1>>, <<1>>, 1, TRUE>>, <<<<1>>, <<2>>, 2, TRUE>>,
           <<<<0, 0>>, <<1, 1>>, 1, TRUE>>,
           <<<<0>>, <<1>>, 1, FALSE>>, <<<<0>>, <<1>>, 2, FALSE>> }

\* <<chunk indices, bytes, io>> of the chunk stores
ChunkWrites ==
    { <<<<0>>, b, TRUE>> : b \in [1..1 -> Bytes] \cup WrongLen(1) }
    \cup { <<<<1>>, b, TRUE>> : b \in [1..1 -> Bytes] }
    \cup { <<<<2>>, Const(1), TRUE>>, <<<<0, 0>>, Const(1), TRUE>>,
           <<<<0>>, Const(1), FALSE>> }

\* <<start, shape, bytes, io>> of the subset stores
SubsetWrites ==
    { <<<<0>>, <<1>>, b, TRUE>> : b \in [1..1 -> Bytes] \cup WrongLen(1) }
    \cup { <<<<0>>, <<2>>, b, TRUE>> : b \in [1..2 -> Bytes] \cup WrongLen(2) }
    \cup { <<<<1>>, <<1>>, b, TRUE>> : b \in [1..1 -> Bytes] }
    \cup { <<<<1>>, <<2>>, Const(2), TRUE>>,
           <<<<0, 0>>, <<1, 1>>, Const(1), TRUE>>,
           <<<<0>>, <<1>>, Const(1), FALSE>> }

\* chunk indices and subset shapes of the queries: inside and outside the
\* grid, of one and of two dimensions, and a shape whose element count
\* leaves the machine word
IdxInputs == {<<0>>, <<1>>, <<2>>, <<0, 0>>, <<1, 1>>, <<1, 2>>}
ShapeInputs == {<<1>>, <<2>>, <<1, 1>>, <<MaxWord, 2>>}

\* <<start, shape>> of the subsets whose chunks are asked for: inside the
\* array, ending on and off a chunk boundary, empty, outside the array, of two
\* dimensions, and one whose end leaves the machine word
SubsetInputs ==
    { <<<<0>>, <<1>>>>, <<<<0>>, <<2>>>>, <<<<1>>, <<2>>>>, <<<<2>>, <<1>>>>,
      <<<<0>>, <<3>>>>, <<<<1>>, <<0>>>>, <<<<3>>, <<1>>>>, <<<<1>>, <<4>>>>,
      <<<<0, 0>>, <<3, 3>>>>, <<<<2, 1>>, <<1, 2>>>>, <<<<0, 2>>, <<2, 2>>>>,
      <<<<MaxWord>>, <<1>>>> }

\* the array documents of the queries: those of the stores, and arrays whose
\* chunks do not divide the shape, of one and of two dimensions
QueryMetaTexts ==
    ArrayMetaTexts \cup
    { [node_type |-> "array", shape |-> <<3>>, chunk |-> <<2>>,
       data_type |-> "uint16", fill_value |-> 0, attributes |-> {},
       subchunk |-> <<>>],
      [node_type |-> "array", shape |-> <<3, 4>>, chunk |-> <<2, 2>>,
       data_type |-> "uint8", fill_value |-> 0, attributes |-> {},
       subchunk |-> <<>>] }

\* the documents a Rust caller boxes with ZarrsArray_T
BoxedMetas == { t \in ArrayMetaTexts : t.data_type = "uint8" }

ArrayArgs == ArrayHandles \cup {NULL}
CacheArgs == CacheHandles \cup {NULL}
StorageArgs == StorageVariants \cup {NULL}

\* <<array, input>>: every input on a handle, one input on the null pointer
Calls(S) ==
    (ArrayHandles \X S) \cup { <<NULL, CHOOSE c \in S : TRUE>> }

\* <<array, cache, input>>: every input on a handle and a cache, one input
\* with either pointer null
CachedCalls(S) ==
    (ArrayHandles \X CacheHandles \X S)
    \cup { <<a, k, CHOOSE c \in S : TRUE>> :
             a \in ArrayArgs, k \in CacheArgs }

\* handles: box, create, destroy
HandleCalls(texts) ==
    \/ \E s \in StorageArgs, t \in texts, a \in ArrayHandles :
          zarrsCreateArrayRW(s, "/", t, a)
    \/ \E v \in Variants, t \in BoxedMetas, a \in ArrayHandles :
          ZarrsArray_T(v, t, a)
    \/ \E a \in ArrayArgs : zarrsDestroyArray(a)

\* the write path and whole-chunk reads
Next ==
    \/ HandleCalls(ArrayMetaTexts)
    \/ \E a \in ArrayArgs, io \in BOOLEAN : zarrsArrayStoreMetadata(a, io)
    \/ \E x \in Calls(ChunkWrites) :
          zarrsArrayStoreChunk(x[1], x[2][1], x[2][2], x[2][3])
    \/ \E x \in Calls(SubsetWrites) :
          zarrsArrayStoreSubset(x[1], x[2][1], x[2][2], x[2][3], x[2][4])
    \/ \E x \in Calls(ChunkReads) :
          zarrsArrayRetrieveChunk(x[1], Len(x[2][1]), x[2][1], x[2][2], x[2][3])

Spec == Init /\ [][Next]_vars

\* the read path: the four retrievals, with and without a shard index cache,
\* over what whole-chunk stores have put in the backend
NextRead ==
    \/ HandleCalls(BoxedMetas)
    \/ \E a \in ArrayHandles, c \in ChunkWrites :
          /\ c[3] /\ Len(c[2]) = 1
          /\ zarrsArrayStoreChunk(a, c[1], c[2], c[3])
    \/ \E x \in Calls(ChunkReads) :
          zarrsArrayRetrieveChunk(x[1], Len(x[2][1]), x[2][1], x[2][2], x[2][3])
    \/ \E x \in Calls(SubsetReads) :
          zarrsArrayRetrieveSubset(x[1], x[2][1], x[2][2], x[2][3], x[2][4])
    \/ \E a \in ArrayArgs, c \in CacheHandles : zarrsCreateShardIndexCache(a, c)
    \/ \E c \in CacheArgs : zarrsDestroyShardIndexCache(c)
    \/ \E x \in CachedCalls(ChunkReads) :
          zarrsArrayRetrieveSubChunk(x[1], x[2], x[3][1], x[3][2], x[3][3])
    \/ \E x \in CachedCalls(SubsetReads) :
          zarrsArrayRetrieveSubsetSharded(x[1], x[2], x[3][1], x[3][2], x[3][3], x[3][4])

SpecRead == Init /\ [][NextRead]_vars

\* the attribute texts callers pass: objects (empty, one member, two members,
\* a repeated key), an array, a number, a truncated object, an object without
\* its colon, the empty text
AttrTexts ==
    { <<"{", "}">>,
      <<"{", "a", ":", "1", "}">>,
      <<"{", "a", ":", "2", "}">>,
      <<"{", "a", ":", "1", ",", "b", ":", "2", "}">>,
      <<"{", "a", ":", "1", ",", "a", ":", "2", "}">>,
      <<"[", "1", "]">>,
      <<"1">>,
      <<"{", "a", ":", "1">>,
      <<"{", "a", "1", "}">>,
      <<>> }

GroupArgs == GroupHandles \cup {NULL}

\* the attribute maps of the groups a Rust caller boxes with ZarrsGroup_T
BoxedAttrs == { {}, {<<"a", "1">>} }

\* opening, creating and storing the metadata of arrays and groups
NextMeta ==
    \/ \E s \in StorageArgs, q \in Paths, t \in ArrayMetaTexts, a \in ArrayHandles :
          zarrsCreateArrayRW(s, q, t, a)
    \/ \E s \in StorageArgs, q \in Paths, a \in ArrayHandles, io \in BOOLEAN :
          zarrsOpenArrayRW(s, q, a, io)
    \/ \E a \in ArrayArgs : zarrsDestroyArray(a)
    \/ \E a \in ArrayArgs, io \in BOOLEAN : zarrsArrayStoreMetadata(a, io)
    \/ \E s \in StorageArgs, q \in Paths, t \in GroupMetaTexts, g \in GroupHandles :
          zarrsCreateGroupRW(s, q, t, g)
    \/ \E s \in StorageArgs, q \in Paths, g \in GroupHandles, io \in BOOLEAN :
          zarrsOpenGroupRW(s, q, g, io)
    \/ \E v \in Variants, m \in BoxedAttrs, g \in GroupHandles : ZarrsGroup_T(v, m, g)
    \/ \E g \in GroupArgs : zarrsDestroyGroup(g)
    \/ \E g \in GroupArgs, io \in BOOLEAN : zarrsGroupStoreMetadata(g, io)

SpecMeta == Init /\ [][NextMeta]_vars

\* the attributes of arrays and groups
NextAttr ==
    \/ \E t \in BoxedMetas, a \in ArrayHandles : zarrsCreateArrayRW("RW", "/", t, a)
    \/ \E a \in ArrayArgs : zarrsDestroyArray(a)
    \/ \E a \in ArrayArgs, t \in AttrTexts : zarrsArraySetAttributes(a, t)
    \/ \E t \in GroupMetaTexts, g \in GroupHandles : zarrsCreateGroupRW("RW", "/", t, g)
    \/ \E g \in GroupArgs : zarrsDestroyGroup(g)
    \/ \E g \in GroupArgs, t \in AttrTexts : zarrsGroupSetAttributes(g, t)
    \/ \E a \in ArrayArgs, pretty \in BOOLEAN : zarrsArrayGetAttributes(a, pretty)
    \/ \E g \in GroupArgs, pretty \in BOOLEAN : zarrsGroupGetAttributes(g, pretty)

SpecAttr == Init /\ [][NextAttr]_vars

\* the attribute texts of the calls that persist metadata: objects
PersistTexts == { t \in AttrTexts : Len(t) \in {2, 5, 9} /\ t[Len(t)] = "}" }

\* setting attributes, storing the metadata and opening the node again
NextPersist ==
    \/ \E t \in BoxedMetas, a \in ArrayHandles : zarrsCreateArrayRW("RW", "/", t, a)
    \/ \E a \in ArrayHandles, t \in PersistTexts : zarrsArraySetAttributes(a, t)
    \/ \E a \in ArrayArgs, io \in BOOLEAN : zarrsArrayStoreMetadata(a, io)
    \/ \E a \in ArrayHandles : zarrsDestroyArray(a)
    \/ \E a \in ArrayHandles, io \in BOOLEAN : zarrsOpenArrayRW("RW", "/", a, io)
    \/ \E a \in ArrayHandles, pretty \in BOOLEAN : zarrsArrayGetAttributes(a, pretty)
    \/ \E t \in GroupMetaTexts, g \in GroupHandles : zarrsCreateGroupRW("RW", "/", t, g)
    \/ \E g \in GroupHandles, t \in PersistTexts : zarrsGroupSetAttributes(g, t)
    \/ \E g \in GroupArgs, io \in BOOLEAN : zarrsGroupStoreMetadata(g, io)
    \/ \E g \in GroupHandles : zarrsDestroyGroup(g)
    \/ \E g \in GroupHandles, io \in BOOLEAN : zarrsOpenGroupRW("RW", "/", g, io)
    \/ \E g \in GroupHandles, pretty \in BOOLEAN : zarrsGroupGetAttributes(g, pretty)

SpecPersist == Init /\ [][NextPersist]_vars

\* the process runs until a call panics
Running == last.res # PANIC

\* the address-arithmetic queries
NextQuery ==
    \/ Running /\ HandleCalls(QueryMetaTexts)
    \/ \E a \in ArrayArgs, d \in 1..2 : Running /\ zarrsArrayGetShape(a, d)
    \/ \E a \in ArrayArgs, i \in IdxInputs : Running /\ zarrsArrayGetChunkSize(a, i)
    \/ \E a \in ArrayArgs, i \in IdxInputs : Running /\ zarrsArrayGetChunkShape(a, i)
    \/ \E a \in ArrayArgs, s \in ShapeInputs : Running /\ zarrsArrayGetSubsetSize(a, s)
    \/ \E a \in ArrayArgs, s \in SubsetInputs :
          Running /\ zarrsArrayGetChunksInSubset(a, s[1], s[2])

SpecQuery == Init /\ [][NextQuery]_vars

-----------------------------------------------------------------------------
(* Properties.  A property about a call is stated over last, the record of *)
(* the call that has just returned, and the state it returned in.          *)

Readable(v) == "Readable" \in Caps(v)
Writable(v) == "Writable" \in Caps(v)

ChunkRetrievals == {"zarrsArrayRetrieveChunk", "zarrsArrayRetrieveSubChunk"}
SubsetRetrievals == {"zarrsArrayRetrieveSubset", "zarrsArrayRetrieveSubsetSharded"}
Retrievals == ChunkRetrievals \cup SubsetRetrievals

\* the call that has just returned was made with every pointer non-null
OnHandle == last.h # NULL /\ last.cache # NULL

\* C1: a retrieval (chunk, subset, sub-chunk, sharded subset) on a non-null
\* array handle reaches the engine exactly when the handle's variant includes
\* Readable (R, RL, RW, RWL); on a W or L handle it returns
\* ZARRS_ERROR_STORAGE_CAPABILITY without an engine call, and the caller's
\* buffer and the backend are as they were.
C1_RetrieveNeedsReadable ==
    (last.op \in Retrievals /\ OnHandle) =>
        /\ last.engine <=> Readable(last.variant)
        /\ ~Readable(last.variant) =>
              /\ last.res = ZARRS_ERROR_STORAGE_CAPABILITY
              /\ last.bufOut = last.bufIn
        /\ ~last.wrote

\* a sharded subset retrieval on an RL handle has read stored bytes, and a
\* retrieval on a W handle is possible in the same run
C1_Witness ==
    /\ last.op = "zarrsArrayRetrieveSubsetSharded"
    /\ last.variant = "RL"
    /\ last.res = ZARRS_SUCCESS
    /\ last.bufOut = Const(2)

\* C5 as stated: zarrsCreateShardIndexCache on a non-null handle succeeds and
\* writes a cache for every variant with Readable, and returns
\* ZARRS_ERROR_STORAGE_CAPABILITY without a cache for W and L.
C5_CacheForEveryReadable ==
    (last.op = "zarrsCreateShardIndexCache" /\ last.h # NULL) =>
        IF Readable(last.variant)
        THEN last.res = ZARRS_SUCCESS /\ last.outw
        ELSE last.res = ZARRS_ERROR_STORAGE_CAPABILITY /\ ~last.outw

\* the bytes a retrieval of the recorded chunk or subset decodes from the
\* backend as it is now (a retrieval leaves the backend and the handle alone)
Decoded ==
    LET m == arrays[last.h].meta
    IN  IF last.op \in ChunkRetrievals
        THEN ChunkBytes(store, m, last.idx[1])
        ELSE RangeBytes(store, m, last.start[1], last.shape[1])

\* C8: after a retrieval returns, either it succeeded and the whole buffer
\* holds the retrieved bytes, or it failed and every byte of the buffer is as
\* the caller left it; no buffer is partly written.
C8_AllOrNothing ==
    last.op \in Retrievals =>
        \/ /\ last.res = ZARRS_SUCCESS
           /\ last.bufOut = Decoded
           /\ Len(last.bufOut) = last.count
        \/ /\ last.res # ZARRS_SUCCESS
           /\ last.bufOut = last.bufIn

\* a two-chunk subset was retrieved whole, one chunk stored and one at fill
C8_Witness ==
    /\ last.op = "zarrsArrayRetrieveSubset"
    /\ last.res = ZARRS_SUCCESS
    /\ last.count = 2
    /\ last.bufOut = <<MaxByte, 0>>

\* what the retrieval without a cache returns now for the recorded handle,
\* chunk or subset, byte count and backend answer
Uncached ==
    LET h   == last.h
        buf == Buffer(last.count)
    IN  IF last.op = "zarrsArrayRetrieveSubChunk"
        THEN IF arrays[h].variant \in RetrieveChunkArms
             THEN zarrsArrayRetrieveChunkImpl(store, arrays[h].meta, last.idx,
                                              last.count, buf, last.io)
             ELSE NoCapability("storage does not have read capability", buf)
        ELSE IF arrays[h].variant \in RetrieveSubsetArms
             THEN zarrsArrayRetrieveSubsetImpl(store, arrays[h].meta, last.start,
                                               last.shape, last.count, buf, last.io)
             ELSE NoCapability("storage does not have read capability", buf)

-----------------------------------------------------------------------------
(* The write path.                                                         *)

Stores == {"zarrsArrayStoreChunk", "zarrsArrayStoreSubset", "zarrsArrayStoreMetadata"}

\* C2 as stated: a write call on a non-null handle whose variant lacks
\* Writable (R, L, RL) returns ZARRS_ERROR_STORAGE_CAPABILITY and leaves the
\* backend unmodified, whatever its other arguments are (wrong buffer lengths
\* and out-of-range indices included).
C2_WriteNeedsWritable ==
    (last.op \in Stores /\ last.h # NULL /\ ~Writable(last.variant)) =>
        /\ last.res = ZARRS_ERROR_STORAGE_CAPABILITY
        /\ ~last.wrote

\* the byte count address arithmetic gives for the recorded chunk or subset
\* (zarrsArrayGetChunkSize, zarrsArrayGetSubsetSize); 0 - 1 when it gives none
ExpectedSize ==
    LET m == arrays[last.h].meta
        a == IF last.op \in ChunkRetrievals \cup {"zarrsArrayStoreChunk"}
             THEN zarrsArrayGetChunkSizeBody(m, last.idx)
             ELSE zarrsArrayGetSubsetSizeBody(m, last.shape, FALSE)
    IN  IF a.res = ZARRS_SUCCESS THEN a.v[1] ELSE 0 - 1

\* the recorded store was made with arguments the engine accepts: the chunk in
\* the grid or the subset in the array, a fixed-size data type, the byte count
\* address arithmetic gives
ValidStore ==
    LET m == arrays[last.h].meta
    IN  CASE last.op = "zarrsArrayStoreChunk" ->
                InGrid(m, last.idx) /\ last.count = ExpectedSize
          [] last.op = "zarrsArrayStoreSubset" ->
                InArray(m, last.start, last.shape) /\ last.count = ExpectedSize
          [] OTHER -> TRUE

\* the backend holds what the recorded store was given
Performed ==
    LET m == arrays[last.h].meta
    IN  CASE last.op = "zarrsArrayStoreChunk" ->
                ChunkBytes(store, m, last.idx[1]) = last.bufIn
          [] last.op = "zarrsArrayStoreSubset" ->
                RangeBytes(store, m, last.start[1], last.shape[1]) = last.bufIn
          [] OTHER -> store.meta = m

\* C3 as stated: a store with valid arguments on a handle whose variant
\* includes Writable (W, RW, RWL) reaches the engine and never returns
\* ZARRS_ERROR_STORAGE_CAPABILITY.
C3_WritableSuffices ==
    (last.op \in Stores /\ last.h # NULL /\ ValidStore /\ Writable(last.variant)) =>
        /\ last.engine
        /\ last.res # ZARRS_ERROR_STORAGE_CAPABILITY

\* the capabilities the dispatch of a store asks of the handle
Required(op) ==
    IF op = "zarrsArrayStoreSubset" THEN {"Readable", "Writable"} ELSE {"Writable"}

\* C3, amended: zarrsArrayStoreChunk and zarrsArrayStoreMetadata with valid
\* arguments are performed on every Writable variant (W, RW, RWL);
\* zarrsArrayStoreSubset is performed on the variants that are Readable and
\* Writable (RW, RWL), and on a W handle it returns
\* ZARRS_ERROR_STORAGE_CAPABILITY and writes nothing.
C3_StoreCapabilities ==
    (last.op \in Stores /\ last.h # NULL /\ ValidStore) =>
        IF Required(last.op) \subseteq Caps(last.variant)
        THEN /\ last.engine
             /\ last.res # ZARRS_ERROR_STORAGE_CAPABILITY
             /\ last.io => (last.res = ZARRS_SUCCESS /\ Performed)
        ELSE /\ last.res = ZARRS_ERROR_STORAGE_CAPABILITY
             /\ ~last.engine
             /\ ~last.wrote

\* a subset store with valid arguments was refused on a W handle
C3_Witness ==
    /\ last.op = "zarrsArrayStoreSubset"
    /\ last.variant = "W"
    /\ ValidStore
    /\ last.bufIn = Const(2)
    /\ last.res = ZARRS_ERROR_STORAGE_CAPABILITY

\* C7 as stated: a retrieval or a store of a chunk or subset whose byte count
\* differs from the size address arithmetic computes returns
\* ZARRS_ERROR_BUFFER_LENGTH, copies nothing to the caller and writes nothing
\* to the backend.  Stated for calls the byte count alone makes wrong: a
\* handle with read and write capability, a region inside the array, a
\* backend that answers.
C7_WrongCountIsBufferLength ==
    (/\ last.op \in Retrievals \cup {"zarrsArrayStoreChunk", "zarrsArrayStoreSubset"}
     /\ OnHandle
     /\ last.variant \in {"RW", "RWL"}
     /\ last.io
     /\ ExpectedSize >= 0
     /\ IF last.op \in ChunkRetrievals \cup {"zarrsArrayStoreChunk"}
        THEN InGrid(arrays[last.h].meta, last.idx)
        ELSE InArray(arrays[last.h].meta, last.start, last.shape)
     /\ last.count # ExpectedSize) =>
        /\ last.res = ZARRS_ERROR_BUFFER_LENGTH
        /\ last.bufOut = last.bufIn
        /\ ~last.wrote

\* the subset store of the call record covers chunk k
Covers(c, k) ==
    /\ c.op = "zarrsArrayStoreSubset"
    /\ Len(c.start) = 1
    /\ \E e \in c.start[1]..(c.start[1] + c.shape[1] - 1) :
          e \div arrays[c.h].meta.chunk[1] = k

\* one step of the round trip: a successful chunk store leaves its bytes B as
\* the chunk's decoded bytes, a successful chunk retrieval returns the chunk's
\* decoded bytes, and what chunk k holds changes only in a successful chunk
\* store to k or (subsets) a successful subset store that covers k
RoundTripStep(subsets) ==
    LET c == last'
        m == arrays'[c.h].meta
        writes(k) == \/ c.op = "zarrsArrayStoreChunk" /\ c.idx = <<k>>
                     \/ subsets /\ Covers(c, k)
    IN  /\ (c.op = "zarrsArrayStoreChunk" /\ c.res = ZARRS_SUCCESS) =>
              ChunkBytes(store', m, c.idx[1]) = c.bufIn
        /\ (c.op = "zarrsArrayRetrieveChunk" /\ c.res = ZARRS_SUCCESS) =>
              c.bufOut = ChunkBytes(store, m, c.idx[1])
        /\ \A k \in ChunkKeys :
              store'.chunks[k] # store.chunks[k] =>
                  c.res = ZARRS_SUCCESS /\ writes(k)

\* C9 as stated: over any sequence of calls, zarrsArrayRetrieveChunk of chunk
\* i returns the bytes B of the most recent successful zarrsArrayStoreChunk to
\* chunk i; no other call changes what chunk i returns.  By induction on the
\* sequence this is: every step keeps the round trip, and only a successful
\* zarrsArrayStoreChunk to chunk i changes chunk i.
C9_OnlyChunkStoreChanges == [][RoundTripStep(FALSE)]_vars

\* C9, amended: zarrsArrayRetrieveChunk of chunk i returns the bytes of the
\* most recent successful write that covers chunk i, which is the B of the
\* last successful zarrsArrayStoreChunk to chunk i unless a successful
\* zarrsArrayStoreSubset overlapping chunk i came after it; stores to other
\* chunks, failed stores and every other call leave chunk i as it was.
C9_RoundTrip == [][RoundTripStep(TRUE)]_vars

\* a chunk retrieval on a read/write handle has returned stored bytes while
\* the other chunk is still at fill
C9_Witness ==
    /\ last.op = "zarrsArrayRetrieveChunk"
    /\ last.variant = "RW"
    /\ last.idx = <<1>>
    /\ last.res = ZARRS_SUCCESS
    /\ last.bufOut = Const(1)
    /\ store.chunks[0] = <<>>

\* the calls that read from or write to the backend
BackendCalls ==
    Retrievals \cup Stores \cup {"zarrsGroupStoreMetadata"}

\* C19 as stated: a backend I/O failure during a retrieval or a store (of a
\* chunk, a subset or the metadata) is returned as ZARRS_ERROR_STORAGE.
\* Stated for calls that fail for no other reason: the handle has the
\* capability, the chunk or subset is inside the array, the byte count is
\* the one address arithmetic gives.
C19_IoFailureIsStorage ==
    (/\ last.op \in BackendCalls
     /\ last.engine
     /\ ~last.io
     /\ last.op \in Retrievals \cup {"zarrsArrayStoreChunk", "zarrsArrayStoreSubset"} =>
           /\ ExpectedSize = last.count
           /\ IF last.op \in ChunkRetrievals \cup {"zarrsArrayStoreChunk"}
              THEN InGrid(arrays[last.h].meta, last.idx)
              ELSE InArray(arrays[last.h].meta, last.start, last.shape)) =>
        last.res = ZARRS_ERROR_STORAGE

-----------------------------------------------------------------------------
(* The queries.                                                            *)

DimensionedCalls ==
    Retrievals \cup
    {"zarrsArrayStoreChunk", "zarrsArrayStoreSubset", "zarrsArrayGetShape",
     "zarrsArrayGetChunkSize", "zarrsArrayGetChunkShape", "zarrsArrayGetSubsetSize"}

\* C6 as stated: a call whose caller-declared dimensionality differs from the
\* handle's returns ZARRS_ERROR_INCOMPATIBLE_DIMENSIONALITY and writes to no
\* caller buffer and no out-parameter.
C6_DimensionalityChecked ==
    (/\ last.op \in DimensionedCalls
     /\ OnHandle
     /\ last.dim # Len(arrays[last.h].meta.shape)) =>
        /\ last.res = ZARRS_ERROR_INCOMPATIBLE_DIMENSIONALITY
        /\ ~last.outw
        /\ last.bufOut = last.bufIn

Smaller(a, b) == IF a < b THEN a ELSE b

\* C15 as stated: for chunk indices of the array's dimensionality,
\* zarrsArrayGetChunkShape returns along each dimension d
\* min(chunk[d], shape[d] - indices[d] * chunk[d]), a chunk on the boundary
\* clipped to the array, and returns ZARRS_ERROR_INVALID_INDICES exactly when
\* indices[d] * chunk[d] >= shape[d] for some d.
C15_BoundaryChunkClipped ==
    (/\ last.op = "zarrsArrayGetChunkShape"
     /\ last.h # NULL
     /\ Len(last.idx) = Len(arrays[last.h].meta.shape)) =>
        LET m == arrays[last.h].meta
            dims == 1..Len(last.idx)
        IN  IF \E d \in dims : last.idx[d] * m.chunk[d] >= m.shape[d]
            THEN last.res = ZARRS_ERROR_INVALID_INDICES /\ ~last.outw
            ELSE /\ last.res = ZARRS_SUCCESS
                 /\ last.outv = [d \in dims |->
                                    Smaller(m.chunk[d],
                                            m.shape[d] - last.idx[d] * m.chunk[d])]

\* chunk k of dimension d meets the subset of the recorded call
Meets(d, k) ==
    LET m == arrays[last.h].meta
    IN  /\ k * m.chunk[d] < last.start[d] + last.shape[d]
        /\ (k + 1) * m.chunk[d] > last.start[d]

MessagesOf(res) ==
    CASE res = ZARRS_ERROR_NULL_PTR -> {"storage is null"}
      [] res \in {ZARRS_ERROR_STORAGE, ZARRS_ERROR_ARRAY, ZARRS_ERROR_GROUP,
                  ZARRS_ERROR_INVALID_INDICES} -> {"engine error"}
      [] res = ZARRS_ERROR_INVALID_METADATA ->
             {"engine error", "error interpreting attributes to a json map"}
      [] res = ZARRS_ERROR_BUFFER_LENGTH ->
             {"chunk_bytes_length does not match decoded chunk size",
              "subset_bytes_length does not match decoded subset size",
              "chunk_bytes_length does not match expected length"}
      [] res = ZARRS_ERROR_STORAGE_CAPABILITY ->
             {"storage does not have read capability",
              "storage does not have write capability",
              "storage does not have read/write capability",
              "storage does not support read and write"}
      [] res = ZARRS_ERROR_UNSUPPORTED_DATA_TYPE ->
             {"variable size data types are not supported"}
      [] OTHER -> {}

ResultCodes ==
    {ZARRS_SUCCESS, ZARRS_ERROR_NULL_PTR, ZARRS_ERROR_STORAGE, ZARRS_ERROR_ARRAY,
     ZARRS_ERROR_BUFFER_LENGTH, ZARRS_ERROR_INVALID_INDICES,
     ZARRS_ERROR_INVALID_METADATA, ZARRS_ERROR_STORAGE_CAPABILITY,
     ZARRS_ERROR_UNKNOWN_INTERSECTING_CHUNKS, ZARRS_ERROR_UNSUPPORTED_DATA_TYPE,
     ZARRS_ERROR_GROUP, ZARRS_ERROR_INCOMPATIBLE_DIMENSIONALITY}

\* C17 as stated: when a call returns a result code other than
\* ZARRS_SUCCESS (ZARRS_ERROR_NULL_PTR and
\* ZARRS_ERROR_INCOMPATIBLE_DIMENSIONALITY included), LAST_ERROR holds a
\* message of that failure, not the text an earlier call left.
C17_FailureWritesMessage ==
    (last.res \in ResultCodes \ {ZARRS_SUCCESS}) =>
        lastError \in MessagesOf(last.res)

\* C18 as stated: every call returns a result code, whatever its inputs are,
\* shapes whose element count or byte size leaves the machine word and
\* ranges whose end start + len leaves it included; no call panics.
C18_AlwaysAResultCode ==
    last.op # "none" => last.res \in ResultCodes

-----------------------------------------------------------------------------
(* Opening, creating, attributes.                                          *)

Opens == {"zarrsOpenArrayRW", "zarrsCreateArrayRW", "zarrsOpenGroupRW",
          "zarrsCreateGroupRW"}

\* C4 as stated: zarrsOpenArrayRW, zarrsCreateArrayRW, zarrsOpenGroupRW and
\* zarrsCreateGroupRW pass the capability check for every storage handle with
\* Readable and Writable (RW, RWL), and return
\* ZARRS_ERROR_STORAGE_CAPABILITY for a storage handle of another variant
\* (R, W, L, RL).  Stated for calls whose metadata text parses, which reach
\* the capability check.
C4_OpenAcceptsReadWrite ==
    (/\ last.op \in Opens
     /\ last.variant # "null"
     /\ last.res # ZARRS_ERROR_INVALID_METADATA) =>
        (last.res # ZARRS_ERROR_STORAGE_CAPABILITY
            <=> {"Readable", "Writable"} \subseteq Caps(last.variant))

SetAttributes == {"zarrsArraySetAttributes", "zarrsGroupSetAttributes"}

\* the attributes the handle of the recorded call holds now
Attributes ==
    IF last.h \in ArrayHandles THEN arrays[last.h].meta.attributes
                               ELSE groups[last.h].attributes

\* the text is read as the caller means it: a JSON object is a brace, members
\* key : value separated by commas, a brace
RECURSIVE WellFormedMembers(_)
WellFormedMembers(toks) ==
    /\ Len(toks) >= 3
    /\ toks[1] \in Keys /\ toks[2] = ":" /\ toks[3] \in Digits
    /\ \/ Len(toks) = 3
       \/ Len(toks) > 4 /\ toks[4] = "," /\ WellFormedMembers(SubSeq(toks, 5, Len(toks)))

JsonObject(text) ==
    /\ Len(text) >= 2
    /\ text[1] = "{" /\ text[Len(text)] = "}"
    /\ Len(text) = 2 \/ WellFormedMembers(SubSeq(text, 2, Len(text) - 1))

\* C10: zarrsArraySetAttributes and zarrsGroupSetAttributes with a text that
\* is not a JSON object (an array, a scalar, malformed text) return
\* ZARRS_ERROR_INVALID_METADATA and leave the handle's attributes exactly as
\* they were before the call.
C10_NonObjectRejected ==
    (last.op \in SetAttributes /\ last.h # NULL /\ ~JsonObject(last.text)) =>
        /\ last.res = ZARRS_ERROR_INVALID_METADATA
        /\ Attributes = last.before

\* a JSON array was refused on a group that holds two attributes
C10_Witness ==
    /\ last.op = "zarrsGroupSetAttributes"
    /\ last.text = <<"[", "1", "]">>
    /\ last.res = ZARRS_ERROR_INVALID_METADATA
    /\ groups[last.h].attributes = {<<"a", "1">>, <<"b", "2">>}

GetAttributes == {"zarrsArrayGetAttributes", "zarrsGroupGetAttributes"}

\* the JSON object a text denotes: its members, a later member replacing an
\* earlier one with the same key
ObjectOf(text) ==
    { <<text[i], text[i + 2]>> :
        i \in { j \in 1..(Len(text) - 2) :
                  /\ text[j + 1] = ":"
                  /\ \A k \in (j + 1)..(Len(text) - 2) :
                        ~(text[k + 1] = ":" /\ text[k] = text[j]) } }

\* the JSON object a serialised text denotes (white space between tokens
\* means nothing)
NotSpace(tok) == tok \notin {" ", "  ", "\n"}

ReadBack(text) == ObjectOf(SelectSeq(text, NotSpace))

\* one step of the attribute calls: a successful setter leaves exactly the
\* object it was given, a getter returns the attributes the handle holds, and
\* attributes change only in a successful setter on the handle or when the
\* handle is made or destroyed
AttributesStep ==
    LET c == last'
        made == {"zarrsCreateArrayRW", "zarrsCreateGroupRW", "zarrsDestroyArray",
                 "zarrsDestroyGroup"}
    IN  /\ (c.op = "zarrsArraySetAttributes" /\ c.res = ZARRS_SUCCESS) =>
              /\ JsonObject(c.text)
              /\ arrays'[c.h].meta.attributes = ObjectOf(c.text)
        /\ (c.op = "zarrsGroupSetAttributes" /\ c.res = ZARRS_SUCCESS) =>
              /\ JsonObject(c.text)
              /\ groups'[c.h].attributes = ObjectOf(c.text)
        /\ (c.op = "zarrsArrayGetAttributes" /\ c.h # NULL) =>
              /\ c.res = ZARRS_SUCCESS /\ c.outw
              /\ JsonObject(SelectSeq(c.outv, NotSpace))
              /\ ReadBack(c.outv) = arrays[c.h].meta.attributes
        /\ (c.op = "zarrsGroupGetAttributes" /\ c.h # NULL) =>
              /\ c.res = ZARRS_SUCCESS /\ c.outw
              /\ JsonObject(SelectSeq(c.outv, NotSpace))
              /\ ReadBack(c.outv) = groups[c.h].attributes
        /\ \A a \in ArrayHandles :
              arrays'[a].meta.attributes # arrays[a].meta.attributes =>
                  \/ c.op \in made
                  \/ c.op = "zarrsArraySetAttributes" /\ c.h = a /\ c.res = ZARRS_SUCCESS
        /\ \A g \in GroupHandles :
              groups'[g].attributes # groups[g].attributes =>
                  \/ c.op \in made
                  \/ c.op = "zarrsGroupSetAttributes" /\ c.h = g /\ c.res = ZARRS_SUCCESS

\* C11: after a successful SetAttributes with the JSON object A the handle's
\* attributes are exactly A (a key that was there before and is not in A is
\* gone: the object is replaced, not merged), and GetAttributes, with either
\* value of the pretty flag, returns a text denoting the attributes the
\* handle holds; so after any sequence of successful SetAttributes calls
\* GetAttributes returns the object set last.
C11_LastObjectSet == [][AttributesStep]_vars

\* a setter given {"a": 2} has removed the key b from an array that held
\* {"a": 1, "b": 2}
C11_Witness ==
    /\ last.op = "zarrsArraySetAttributes"
    /\ last.res = ZARRS_SUCCESS
    /\ last.before = {<<"a", "1">>, <<"b", "2">>}
    /\ last.text = <<"{", "a", ":", "2", "}">>
    /\ arrays[last.h].meta.attributes = {<<"a", "2">>}

\* the metadata document the handle of the recorded call holds in memory
Document ==
    IF last.h \in ArrayHandles THEN arrays[last.h].meta
                               ELSE GroupDoc(groups[last.h].attributes)

StoreMetadataCalls == {"zarrsArrayStoreMetadata", "zarrsGroupStoreMetadata"}

-----------------------------------------------------------------------------
(* Two threads that fail and ask for the last error.                       *)

\* the process has started: the slot holds the empty text
InitThreads ==
    /\ zarrs = Built
    /\ backend = Shared
    /\ store = [meta |-> NoMeta, chunks |-> [k \in ChunkKeys |-> <<>>]]
    /\ arrays = [a \in ArraySlots |-> NullArray]
    /\ groups = [g \in GroupSlots |-> NullGroup]
    /\ caches = [c \in CacheHandles |-> NullCache]
    /\ lastError = Halves("")
    /\ threads = NoThreads
    /\ last = NoCall

NextThreads ==
    \/ \E t \in Threads, m \in ThreadMessages : FailLock(t, m)
    \/ \E t \in Threads : FailAssignHead(t)
    \/ \E t \in Threads : FailAssignTail(t)
    \/ \E t \in Threads : FailReturn(t)
    \/ \E t \in Threads : zarrsLastErrorLock(t)
    \/ \E t \in Threads : zarrsLastErrorCopyHead(t)
    \/ \E t \in Threads : zarrsLastErrorReturn(t)

SpecThreads == InitThreads /\ [][NextThreads]_vars

\* C20: LAST_ERROR is one slot for all threads, and a thread's zarrsLastError
\* returns the complete message of the assignment that landed last before
\* its read (its own or the other thread's, or the empty start-up text),
\* never halves of two messages, under every interleaving of two threads.
C20_WholeLastMessage ==
    \A t \in Threads :
        (threads.pc[t] = "idle" /\ threads.got[t] # <<>>) =>
            /\ threads.got[t] = Halves(threads.seen[t])
            /\ threads.seen[t] \in ThreadMessages

\* a thread has read the other thread's message after its own failing call
C20_Witness ==
    /\ threads.pc["t1"] = "idle"
    /\ threads.msg["t1"] = "storage is null"
    /\ threads.got["t1"] = Halves("storage does not have read capability")
    /\ threads.msg["t2"] = "storage does not have read capability"

-----------------------------------------------------------------------------
(* Shared ownership of the backend.                                        *)

\* handles opened and created on the caller's storage handle, used and
\* destroyed in any order, the storage handle included
NextOwn ==
    \/ \E s \in {"RW", NULL} : zarrsDestroyStorage(s)
    \/ \E a \in ArrayHandles, t \in BoxedMetas : zarrsCreateArrayRW("RW", "/", t, a)
    \/ \E a \in ArrayHandles : zarrsOpenArrayRW("RW", "/", a, TRUE)
    \/ \E a \in ArrayArgs : zarrsDestroyArray(a)
    \/ \E a \in ArrayHandles : zarrsArrayStoreMetadata(a, TRUE)
    \/ \E a \in ArrayHandles, b \in [1..1 -> Bytes] :
          zarrsArrayStoreChunk(a, <<0>>, b, TRUE)
    \/ \E a \in ArrayHandles : zarrsArrayRetrieveChunk(a, 1, <<0>>, 1, TRUE)
    \/ \E g \in GroupHandles, t \in GroupMetaTexts : zarrsCreateGroupRW("RW", "/", t, g)
    \/ \E g \in GroupHandles : zarrsOpenGroupRW("RW", "/", g, TRUE)
    \/ \E g \in GroupArgs : zarrsDestroyGroup(g)
    \/ \E g \in GroupHandles : zarrsGroupStoreMetadata(g, TRUE)
    \/ \E g \in GroupHandles, pretty \in BOOLEAN : zarrsGroupGetAttributes(g, pretty)

SpecOwn == Init /\ [][NextOwn]_vars

\* the holders of a reference to the backend: the storage handle and the
\* live array and group handles
Holders ==
    (IF backend.handle THEN {"storage"} ELSE {})
    \cup { a \in ArrayHandles : Live(a) } \cup { g \in GroupHandles : LiveGroup(g) }

\* one step of the handles' lives: every holder has a reference of its own,
\* the backend is released exactly when no holder is left, a call on a live
\* handle does what it does while the storage handle exists, and destroying
\* a handle leaves every other handle and the backend contents as they were
OwnershipStep ==
    LET c == last'
    IN  /\ backend'.strong = Cardinality(Holders')
        /\ backend'.released <=> Holders' = {}
        /\ (c.op \in {"zarrsArrayStoreChunk", "zarrsArrayRetrieveChunk",
                      "zarrsArrayStoreMetadata", "zarrsGroupStoreMetadata",
                      "zarrsGroupGetAttributes"} /\ c.h # NULL) =>
              /\ c.res = ZARRS_SUCCESS
              /\ ~backend'.released
              /\ c.op = "zarrsArrayStoreChunk" =>
                    ChunkBytes(store', arrays'[c.h].meta, 0) = c.bufIn
              /\ c.op = "zarrsArrayRetrieveChunk" =>
                    c.bufOut = ChunkBytes(store, arrays[c.h].meta, 0)
        /\ c.op = "zarrsDestroyArray" =>
              /\ groups' = groups /\ store' = store
              /\ backend'.handle = backend.handle
              /\ \A a \in ArrayHandles \ {c.h} : arrays'[a] = arrays[a]
        /\ c.op = "zarrsDestroyGroup" =>
              /\ arrays' = arrays /\ store' = store
              /\ backend'.handle = backend.handle
        /\ c.op = "zarrsDestroyStorage" =>
              /\ arrays' = arrays /\ groups' = groups /\ store' = store

\* C21: each array or group handle holds its own counted reference to the
\* backend, taken when it is opened or created: after the storage handle is
\* released every handle opened from it is as usable as before, destroying
\* one handle affects no other handle, and the backend is released exactly
\* when the last holder (the storage handle or a child handle) is released,
\* never earlier.
C21_SharedOwnership == [][OwnershipStep]_vars

\* after the storage handle and the group were destroyed, the array, the one
\* holder left, has returned the bytes stored through it
C21_Witness ==
    /\ ~backend.handle
    /\ ~LiveGroup("g1")
    /\ backend.strong = 1 /\ ~backend.released
    /\ last.op = "zarrsArrayRetrieveChunk"
    /\ last.res = ZARRS_SUCCESS
    /\ last.bufOut = Const(1)

-----------------------------------------------------------------------------
(* Null handles.                                                           *)

\* every call on a null pointer with every input, and the calls that make and
\* change the handles the null calls must leave alone
NextNull ==
    \/ \E q \in Paths, t \in ArrayMetaTexts, a \in ArrayHandles :
          zarrsCreateArrayRW(NULL, q, t, a)
    \/ \E q \in Paths, a \in ArrayHandles, io \in BOOLEAN :
          zarrsOpenArrayRW(NULL, q, a, io)
    \/ \E q \in Paths, t \in GroupMetaTexts, g \in GroupHandles :
          zarrsCreateGroupRW(NULL, q, t, g)
    \/ \E q \in Paths, g \in GroupHandles, io \in BOOLEAN :
          zarrsOpenGroupRW(NULL, q, g, io)
    \/ zarrsDestroyStorage(NULL)
    \/ \E t \in BoxedMetas, a \in ArrayHandles : zarrsCreateArrayRW("RW", "/", t, a)
    \/ \E g \in GroupHandles : zarrsCreateGroupRW("RW", "/", GroupDoc({}), g)
    \/ \E a \in ArrayArgs : zarrsDestroyArray(a)
    \/ \E g \in GroupArgs : zarrsDestroyGroup(g)
    \/ \E a \in ArrayArgs, c \in CacheHandles : zarrsCreateShardIndexCache(a, c)
    \/ \E c \in CacheArgs : zarrsDestroyShardIndexCache(c)
    \/ \E io \in BOOLEAN : zarrsArrayStoreMetadata(NULL, io)
    \/ \E io \in BOOLEAN : zarrsGroupStoreMetadata(NULL, io)
    \/ \E x \in ChunkWrites : zarrsArrayStoreChunk(NULL, x[1], x[2], x[3])
    \/ \E a \in ArrayHandles : zarrsArrayStoreChunk(a, <<0>>, Const(1), TRUE)
    \/ \E x \in SubsetWrites : zarrsArrayStoreSubset(NULL, x[1], x[2], x[3], x[4])
    \/ \E x \in ChunkReads : zarrsArrayRetrieveChunk(NULL, Len(x[1]), x[1], x[2], x[3])
    \/ \E x \in SubsetReads : zarrsArrayRetrieveSubset(NULL, x[1], x[2], x[3], x[4])
    \/ \E a \in ArrayArgs, k \in CacheArgs, x \in ChunkReads :
          /\ a = NULL \/ k = NULL
          /\ zarrsArrayRetrieveSubChunk(a, k, x[1], x[2], x[3])
    \/ \E a \in ArrayArgs, k \in CacheArgs, x \in SubsetReads :
          /\ a = NULL \/ k = NULL
          /\ zarrsArrayRetrieveSubsetSharded(a, k, x[1], x[2], x[3], x[4])
    \/ \E a \in ArrayHandles, k \in CacheHandles :
          zarrsArrayRetrieveSubChunk(a, k, <<0>>, 1, TRUE)
    \/ \E d \in 1..2 : zarrsArrayGetShape(NULL, d)
    \/ \E i \in IdxInputs : zarrsArrayGetChunkSize(NULL, i)
    \/ \E i \in IdxInputs : zarrsArrayGetChunkShape(NULL, i)
    \/ \E x \in ShapeInputs : zarrsArrayGetSubsetSize(NULL, x)
    \/ \E x \in SubsetInputs : zarrsArrayGetChunksInSubset(NULL, x[1], x[2])
    \/ \E t \in AttrTexts : zarrsArraySetAttributes(NULL, t)
    \/ \E a \in ArrayHandles : zarrsArraySetAttributes(a, <<"{", "a", ":", "1", "}">>)
    \/ \E pretty \in BOOLEAN : zarrsArrayGetAttributes(NULL, pretty)
    \/ \E t \in AttrTexts : zarrsGroupSetAttributes(NULL, t)
    \/ \E pretty \in BOOLEAN : zarrsGroupGetAttributes(NULL, pretty)

SpecNull == Init /\ [][NextNull]_vars

\* the recorded call was given a null pointer for a handle it requires
NullCall(c) ==
    CASE c.op \in Opens \cup {"zarrsDestroyStorage"} -> c.variant = "null"
      [] c.op = "zarrsDestroyShardIndexCache" -> c.cache = NULL
      [] c.op \in {"zarrsArrayRetrieveSubChunk", "zarrsArrayRetrieveSubsetSharded"} ->
             c.h = NULL \/ c.cache = NULL
      [] c.op \in {"none", "ZarrsArray_T", "ZarrsGroup_T"} -> FALSE
      [] OTHER -> c.h = NULL

\* a call given a null handle returns ZARRS_ERROR_NULL_PTR and leaves the
\* caller's buffer, every out-parameter, the backend and every handle alone
NullStep ==
    NullCall(last') =>
        /\ last'.res = ZARRS_ERROR_NULL_PTR
        /\ ~last'.engine /\ ~last'.wrote /\ ~last'.outw
        /\ last'.bufOut = last'.bufIn
        /\ UNCHANGED <<backend, store, arrays, groups, caches>>

\* C23: every call that takes a storage, array, group or shard index cache
\* handle returns ZARRS_ERROR_NULL_PTR when that handle is null, whatever its
\* other arguments are, writes to no out-parameter and no buffer and changes
\* neither the backend nor any handle; the cached retrievals do so when the
\* array or the cache is null, and the destroy calls release nothing.
C23_NullHandleFirst == [][NullStep]_vars

\* a sub-chunk retrieval on a live array was refused for its null cache, with
\* a byte count that is wrong for the chunk as well
C23_Witness ==
    /\ last.op = "zarrsArrayRetrieveSubChunk"
    /\ last.h \in ArrayHandles /\ Live(last.h)
    /\ last.cache = NULL
    /\ last.count = 2
    /\ last.res = ZARRS_ERROR_NULL_PTR
    /\ last.bufOut = Buffer(2)

-----------------------------------------------------------------------------
(* Failed opens and creates.                                               *)

ArrayOpens == {"zarrsOpenArrayRW", "zarrsCreateArrayRW"}

\* an open or create call that fails writes no handle and changes nothing; one
\* that succeeds fills the free slot behind its out-parameter and nothing else
OpenStep ==
    (last'.op \in Opens /\ last' # last) =>
        IF last'.res = ZARRS_SUCCESS
        THEN /\ last'.outw
             /\ IF last'.op \in ArrayOpens
                THEN /\ arrays[last'.h].variant = "null"
                     /\ arrays'[last'.h].variant # "null"
                     /\ groups' = groups
                ELSE /\ groups[last'.h].variant = "null"
                     /\ groups'[last'.h].variant # "null"
                     /\ arrays' = arrays
        ELSE /\ last'.res \in {ZARRS_ERROR_INVALID_METADATA, ZARRS_ERROR_STORAGE_CAPABILITY,
                              ZARRS_ERROR_ARRAY, ZARRS_ERROR_GROUP, ZARRS_ERROR_NULL_PTR}
             /\ ~last'.outw
             /\ last'.res = ZARRS_ERROR_INVALID_METADATA => ~last'.engine
             /\ UNCHANGED <<backend, store, arrays, groups, caches>>

\* C24: zarrsCreateArrayRW and zarrsCreateGroupRW validate the metadata text
\* before a handle is made: whenever a create or open call returns a code
\* other than success, the handle out-parameter is not written, no handle
\* exists for the call and the stored data is unchanged; a new handle exists
\* only when the call returns success.
C24_FailedOpenLeavesNothing == [][OpenStep]_vars

\* a create on a read-write storage handle was refused for its metadata text
\* and its slot is still free
C24_Witness ==
    /\ last.op = "zarrsCreateArrayRW"
    /\ last.variant = "RW"
    /\ last.res = ZARRS_ERROR_INVALID_METADATA
    /\ last.h \in ArrayHandles /\ ~Live(last.h)
    /\ store.meta # NoMeta

-----------------------------------------------------------------------------
(* The version word.                                                       *)

\* version components around the widths of the fields of the version word
Components == {0, 1, 23, 2^10 - 1, 2^10, 2^12 - 1, 2^12}

InitVersion ==
    /\ zarrs \in [major : Components, minor : Components, patch : Components]
    /\ backend = Shared
    /\ store = [meta |-> NoMeta, chunks |-> [k \in ChunkKeys |-> <<>>]]
    /\ arrays = [a \in ArraySlots |-> NullArray]
    /\ groups = [g \in GroupSlots |-> NullGroup]
    /\ caches = [c \in CacheHandles |-> NullCache]
    /\ lastError = ""
    /\ threads = NoThreads
    /\ last = NoCall

NextVersion ==
    \/ zarrsVersionMajor
    \/ zarrsVersionMinor
    \/ zarrsVersionPatch
    \/ zarrsVersion

SpecVersion == InitVersion /\ [][NextVersion]_vars

\* bit i of (major << 22) | (minor << 12) | patch
EncodedBit(i) ==
    \/ i >= 22 /\ i - 22 \in U32(zarrs.major)
    \/ i >= 12 /\ i - 12 \in U32(zarrs.minor)
    \/ i \in U32(zarrs.patch)

\* the components read back from the version word: the bits from 22 up, the
\* ten bits from 12, the low twelve bits
Recovered(w) ==
    /\ Shr(w, 22) = U32(zarrs.major)
    /\ BitAnd(Shr(w, 12), U32(2^10 - 1)) = U32(zarrs.minor)
    /\ BitAnd(w, U32(2^12 - 1)) = U32(zarrs.patch)

-----------------------------------------------------------------------------
(* The order of the checks of a read or write call.                        *)

Transfers == Retrievals \cup {"zarrsArrayStoreChunk", "zarrsArrayStoreSubset"}

\* the capabilities a read or write call asks of the handle
Needs(op) == IF op \in Retrievals THEN {"Readable"} ELSE Required(op)

\* the number of dimensions the recorded call was made with
CallRank == IF last.op \in ChunkRetrievals \cup {"zarrsArrayStoreChunk"}
            THEN Len(last.idx) ELSE Len(last.start)

\* C26 as stated: a read or write call checks the handle, then the
\* capability, then the dimensionality, then computes the expected byte size
\* and compares it with the caller's byte count, and only then calls the
\* engine: the engine is not called when the byte count is wrong, and when
\* several checks fail the error of the earliest one is returned.
C26_ChecksInOrder ==
    (last.op \in Transfers /\ OnHandle) =>
        /\ (ExpectedSize >= 0 /\ last.count # ExpectedSize) => ~last.engine
        /\ IF ~(Needs(last.op) \subseteq Caps(last.variant))
           THEN last.res = ZARRS_ERROR_STORAGE_CAPABILITY
           ELSE IF CallRank # Len(arrays[last.h].meta.shape)
           THEN last.res = ZARRS_ERROR_INCOMPATIBLE_DIMENSIONALITY
           ELSE (ExpectedSize >= 0 /\ last.count # ExpectedSize) =>
                    last.res = ZARRS_ERROR_BUFFER_LENGTH

-----------------------------------------------------------------------------
(* Handles made by the open and create calls.                              *)

\* the calls of a C caller: every handle comes from an open or a create call
NextRW ==
    \/ \E s \in StorageArgs, t \in BoxedMetas, a \in ArrayHandles :
          zarrsCreateArrayRW(s, "/", t, a)
    \/ \E s \in StorageArgs, a \in ArrayHandles, io \in BOOLEAN :
          zarrsOpenArrayRW(s, "/", a, io)
    \/ \E a \in ArrayArgs : zarrsDestroyArray(a)
    \/ \E a \in ArrayArgs, io \in BOOLEAN : zarrsArrayStoreMetadata(a, io)
    \/ \E x \in Calls(ChunkWrites) :
          zarrsArrayStoreChunk(x[1], x[2][1], x[2][2], x[2][3])
    \/ \E x \in Calls(SubsetWrites) :
          zarrsArrayStoreSubset(x[1], x[2][1], x[2][2], x[2][3], x[2][4])
    \/ \E x \in Calls(ChunkReads) :
          zarrsArrayRetrieveChunk(x[1], Len(x[2][1]), x[2][1], x[2][2], x[2][3])
    \/ \E x \in Calls(SubsetReads) :
          zarrsArrayRetrieveSubset(x[1], x[2][1], x[2][2], x[2][3], x[2][4])
    \/ \E a \in ArrayArgs, c \in CacheHandles : zarrsCreateShardIndexCache(a, c)
    \/ \E c \in CacheArgs : zarrsDestroyShardIndexCache(c)
    \/ \E x \in CachedCalls(ChunkReads) :
          zarrsArrayRetrieveSubChunk(x[1], x[2], x[3][1], x[3][2], x[3][3])
    \/ \E x \in CachedCalls(SubsetReads) :
          zarrsArrayRetrieveSubsetSharded(x[1], x[2], x[3][1], x[3][2], x[3][3], x[3][4])
    \/ \E s \in StorageArgs, g \in GroupHandles :
          zarrsCreateGroupRW(s, "/", GroupDoc({}), g)
    \/ \E s \in StorageArgs, g \in GroupHandles, io \in BOOLEAN :
          zarrsOpenGroupRW(s, "/", g, io)
    \/ \E g \in GroupArgs : zarrsDestroyGroup(g)
    \/ \E g \in GroupArgs, io \in BOOLEAN : zarrsGroupStoreMetadata(g, io)

SpecRW == Init /\ [][NextRW]_vars

\* every handle is RW from its open or create call to its destroy call, and
\* no call on a handle is refused for the handle's capability
VariantStep ==
    /\ \A a \in ArrayHandles :
          /\ arrays'[a].variant \in {"null", "RW"}
          /\ (arrays[a].variant = "RW" /\ arrays'[a].variant # "RW") =>
                (last'.op = "zarrsDestroyArray" /\ last'.h = a)
    /\ \A g \in GroupHandles :
          /\ groups'[g].variant \in {"null", "RW"}
          /\ (groups[g].variant = "RW" /\ groups'[g].variant # "RW") =>
                (last'.op = "zarrsDestroyGroup" /\ last'.h = g)
    /\ last'.op \notin Opens => last'.res # ZARRS_ERROR_STORAGE_CAPABILITY

\* C27: every array handle and every group handle made by zarrsOpenArrayRW,
\* zarrsCreateArrayRW, zarrsOpenGroupRW or zarrsCreateGroupRW has variant RW
\* and keeps it until it is destroyed, so no read, write or cache-construction
\* call on such a handle returns ZARRS_ERROR_STORAGE_CAPABILITY.
C27_HandlesStayRW == [][VariantStep]_vars

\* a shard index cache was made for a handle an open call returned, with
\* chunk data in the backend
C27_Witness ==
    /\ last.op = "zarrsCreateShardIndexCache"
    /\ last.res = ZARRS_SUCCESS
    /\ last.h \in ArrayHandles /\ arrays[last.h].variant = "RW"
    /\ store.meta.node_type = "array"
    /\ \E k \in ChunkKeys : store.chunks[k] # <<>>

-----------------------------------------------------------------------------
(* The last-error slot over a sequence of calls.                           *)

\* failing and succeeding calls, and reads of the slot between them
NextErr ==
    \/ HandleCalls(ArrayMetaTexts)
    \/ \E a \in ArrayHandles, io \in BOOLEAN : zarrsOpenArrayRW("RW", "/", a, io)
    \/ \E a \in ArrayArgs, io \in BOOLEAN : zarrsArrayStoreMetadata(a, io)
    \/ \E x \in Calls(ChunkWrites) :
          zarrsArrayStoreChunk(x[1], x[2][1], x[2][2], x[2][3])
    \/ \E x \in Calls(ChunkReads) :
          zarrsArrayRetrieveChunk(x[1], Len(x[2][1]), x[2][1], x[2][2], x[2][3])
    \/ \E a \in ArrayArgs, t \in {<<"{", "}">>, <<"1">>} : zarrsArraySetAttributes(a, t)
    \/ \E a \in ArrayArgs, d \in 1..2 : zarrsArrayGetShape(a, d)
    \/ zarrsLastError

SpecErr == Init /\ [][NextErr]_vars

\* the failures that return without an assignment to LAST_ERROR: a null array
\* handle, and the dimensionality test of zarrsArrayGetShape
Silent(c) ==
    \/ c.res = ZARRS_ERROR_NULL_PTR /\ c.op \notin Opens
    \/ c.res = ZARRS_ERROR_INCOMPATIBLE_DIMENSIONALITY

\* the slot changes only in a failing call, and then to a message of that
\* failure; a failure that records leaves its message; a read returns the
\* text and leaves it
LastErrorStep ==
    /\ last'.res = ZARRS_SUCCESS => lastError' = lastError
    /\ lastError' # lastError => lastError' \in MessagesOf(last'.res)
    /\ (last'.res # ZARRS_SUCCESS /\ ~Silent(last') /\ last' # last) =>
          lastError' \in MessagesOf(last'.res)
    /\ last'.op = "zarrsLastError" => last'.outv = <<lastError>>

\* C28: a call that returns ZARRS_SUCCESS never writes LAST_ERROR and
\* zarrsLastError never clears it: the slot is empty until the first failure
\* that records a message, and from then on it holds the message of the most
\* recent failure that recorded one, over any number of later successful
\* calls and reads.
C28_LastErrorSticks == lastError = "" /\ [][LastErrorStep]_vars

\* the slot has been read and a chunk then stored with success, and the slot
\* still holds the message of an earlier refused store
C28_Witness ==
    /\ last.op = "zarrsArrayStoreChunk"
    /\ last.res = ZARRS_SUCCESS
    /\ lastError = "storage does not have write capability"

-----------------------------------------------------------------------------
(* Two handles on one path.                                                *)

\* the attribute texts of two handles: an empty object and two objects
TwoTexts == { t \in PersistTexts : Len(t) \in {2, 5} }

NextTwo ==
    \/ \E a \in ArraySlots, t \in BoxedMetas : zarrsCreateArrayRW("RW", "/", t, a)
    \/ \E a \in ArraySlots, io \in BOOLEAN : zarrsOpenArrayRW("RW", "/", a, io)
    \/ \E a \in ArraySlots, t \in TwoTexts : zarrsArraySetAttributes(a, t)
    \/ \E a \in ArraySlots, io \in BOOLEAN : zarrsArrayStoreMetadata(a, io)
    \/ \E a \in ArraySlots : zarrsDestroyArray(a)
    \/ \E g \in GroupSlots : zarrsCreateGroupRW("RW", "/", GroupDoc({}), g)
    \/ \E g \in GroupSlots, io \in BOOLEAN : zarrsOpenGroupRW("RW", "/", g, io)
    \/ \E g \in GroupSlots, t \in TwoTexts : zarrsGroupSetAttributes(g, t)
    \/ \E g \in GroupSlots, io \in BOOLEAN : zarrsGroupStoreMetadata(g, io)
    \/ \E g \in GroupSlots : zarrsDestroyGroup(g)

SpecTwo == Init /\ [][NextTwo]_vars

InMemoryCalls == SetAttributes \cup {"zarrsCreateArrayRW", "zarrsCreateGroupRW"}

\* a setter or a create changes the handle it is called with and nothing
\* else; the stored document changes only when a store of the metadata
\* succeeds, to the document of the handle that was stored; an open gives
\* the new handle the stored document
InMemoryStep ==
    LET c == last'
    IN  /\ c.op \in InMemoryCalls =>
              /\ store' = store
              /\ \A a \in ArraySlots \ {c.h} : arrays'[a] = arrays[a]
              /\ \A g \in GroupSlots \ {c.h} : groups'[g] = groups[g]
        /\ store' # store =>
              /\ c.op \in StoreMetadataCalls /\ c.res = ZARRS_SUCCESS
              /\ store'.meta = IF c.op = "zarrsArrayStoreMetadata"
                               THEN arrays[c.h].meta
                               ELSE GroupDoc(groups[c.h].attributes)
        /\ (c.op = "zarrsOpenArrayRW" /\ c.res = ZARRS_SUCCESS /\ c # last) =>
              arrays'[c.h].meta = store.meta
        /\ (c.op = "zarrsOpenGroupRW" /\ c.res = ZARRS_SUCCESS /\ c # last) =>
              groups'[c.h].attributes = store.meta.attributes

\* C29: zarrsArraySetAttributes, zarrsGroupSetAttributes, zarrsCreateArrayRW
\* and zarrsCreateGroupRW change only the handle in memory: the document
\* stored at the path is unchanged until a store of the metadata succeeds on
\* that handle, and another handle on the same path does not see the new
\* metadata or attributes.
C29_SettersStayInMemory == [][InMemoryStep]_vars

\* two array handles on one path: the attributes of the first were just set,
\* the second and the stored document still hold the attributes stored before
C29_Witness ==
    /\ last.op = "zarrsArraySetAttributes"
    /\ last.res = ZARRS_SUCCESS
    /\ last.h = "a1"
    /\ Live("a2")
    /\ store.meta.node_type = "array"
    /\ arrays["a2"].meta = store.meta
    /\ arrays["a1"].meta.attributes # store.meta.attributes
    /\ store.meta.attributes # {}

-----------------------------------------------------------------------------
(* A sharded array and its shard index cache.                              *)

\* two shards of two inner chunks of one byte
ShardedMeta ==
    [node_type |-> "array", shape |-> <<4>>, chunk |-> <<2>>, data_type |-> "uint8",
     fill_value |-> 0, attributes |-> {}, subchunk |-> <<1>>]

\* the bytes stored to a shard: with and without an inner chunk of fill value
ShardWrites == {<<0, 1>>, <<1, 1>>}

\* stores and cached retrievals on one sharded array
NextShard ==
    \/ \E a \in ArrayHandles : zarrsCreateArrayRW("RW", "/", ShardedMeta, a)
    \/ \E a \in ArrayHandles, c \in CacheHandles : zarrsCreateShardIndexCache(a, c)
    \/ \E c \in CacheHandles : zarrsDestroyShardIndexCache(c)
    \/ \E a \in ArrayHandles, k \in ChunkKeys, b \in ShardWrites :
          zarrsArrayStoreChunk(a, <<k>>, b, TRUE)
    \/ \E a \in ArrayHandles, e \in 0..3 :
          zarrsArrayStoreSubset(a, <<e>>, <<1>>, <<1>>, TRUE)
    \/ \E a \in ArrayHandles, k \in ChunkKeys : zarrsArrayRetrieveChunk(a, 1, <<k>>, 2, TRUE)
    \/ \E a \in ArrayHandles, c \in CacheHandles, i \in 0..4, io \in BOOLEAN :
          zarrsArrayRetrieveSubChunk(a, c, <<i>>, 1, io)
    \/ \E a \in ArrayHandles, c \in CacheHandles, e \in 0..3, n \in 1..2 :
          zarrsArrayRetrieveSubsetSharded(a, c, <<e>>, <<n>>, n, TRUE)

SpecShard == Init /\ [][NextShard]_vars

CachedRetrievals == {"zarrsArrayRetrieveSubChunk", "zarrsArrayRetrieveSubsetSharded"}

\* the first element and the number of elements of the region the recorded
\* cached retrieval asks for
RegionStart ==
    IF last.op = "zarrsArrayRetrieveSubChunk"
    THEN last.idx[1] * arrays[last.h].meta.subchunk[1] ELSE last.start[1]
RegionLen ==
    IF last.op = "zarrsArrayRetrieveSubChunk"
    THEN arrays[last.h].meta.subchunk[1] ELSE last.shape[1]

\* C30 as stated: over every sequence of stores and cached retrievals on one
\* sharded array with a cache built from it, a cached retrieval of a region
\* inside the array returns the bytes the backend holds for the region now,
\* also when chunks of a shard were stored after the cache took the shard's
\* index.
C30_CachedReadIsCurrent ==
    (/\ last.op \in CachedRetrievals
     /\ OnHandle
     /\ last.io
     /\ RegionStart + RegionLen <= arrays[last.h].meta.shape[1]
     /\ last.count = RegionLen) =>
        /\ last.res = ZARRS_SUCCESS
        /\ last.bufOut = RangeBytes(store, arrays[last.h].meta, RegionStart, RegionLen)

-----------------------------------------------------------------------------
(* array_sharded.rs: the cached retrievals called by threads.  A call takes *)
(* the elements of its region in order; for each it locks the cache's       *)
(* table, takes the shard's index from it (on a miss it decodes the index   *)
(* from the backend and puts it in the table before it unlocks), and then   *)
(* decodes the inner chunk from the backend by that index.                  *)

\* the first element and the number of elements of the region of a cached
\* retrieval
ReadStart(r, m) ==
    IF r.op = "zarrsArrayRetrieveSubChunk" THEN r.idx[1] * m.subchunk[1] ELSE r.start[1]

ReadCount(r, m) ==
    IF r.op = "zarrsArrayRetrieveSubChunk" THEN m.subchunk[1] ELSE r.shape[1]

\* the element thread t's retrieval is at, its shard and its inner chunk
\* (from 1) in the shard
ReadElem(t) ==
    ReadStart(threads.req[t], arrays[threads.req[t].h].meta) + threads.pos[t]

ReadShard(t) == ReadElem(t) \div arrays[threads.req[t].h].meta.chunk[1]

ReadInner(t) ==
    LET m == arrays[threads.req[t].h].meta
    IN  ((ReadElem(t) \div m.subchunk[1]) % SubChunks(m)) + 1

\* a lock on the table that a thread can take while another holds it
CacheNoMutex(c) == TRUE

\* the lock of the cache's table: a thread blocks until no thread holds it
CacheMutexFree(c) == caches[c].holder = "free"

\* the guard of the table's lock is dropped
CacheUnlocked(cache, t) ==
    [cache EXCEPT !.holder = IF @ = t THEN "free" ELSE @]

\* the call is made: null checks and the match on the handle's variant passed,
\* the engine checks the region against the array
CachedBegin(t, r) ==
    /\ threads.pc[t] = "idle"
    /\ Live(r.h)
    /\ LiveCache(r.cache)
    /\ arrays[r.h].variant
         \in (IF r.op = "zarrsArrayRetrieveSubChunk" THEN RetrieveSubChunkArms
              ELSE RetrieveSubsetShardedArms)
    /\ arrays[r.h].meta.subchunk # <<>>
    /\ LET m  == arrays[r.h].meta
           ok == IF r.op = "zarrsArrayRetrieveSubChunk" THEN InSubGrid(m, r.idx)
                 ELSE InArray(m, r.start, r.shape)
       IN  threads' = [threads EXCEPT !.pc[t] = IF ok THEN "lock" ELSE "error",
                                      !.req[t] = r, !.pos[t] = 0, !.index[t] = <<>>,
                                      !.acc[t] = <<>>, !.ret[t] = NoRet]
    /\ UNCHANGED <<zarrs, backend, store, arrays, groups, caches, lastError, last>>

CacheLock(t) ==
    /\ threads.pc[t] = "lock"
    /\ CacheMutexFree(threads.req[t].cache)
    /\ caches' = [caches EXCEPT ![threads.req[t].cache].holder = t]
    /\ threads' = [threads EXCEPT !.pc[t] = "lookup"]
    /\ UNCHANGED <<zarrs, backend, store, arrays, groups, lastError, last>>

\* the table is asked for the shard: a hit hands out the index it holds
CacheLookup(t) ==
    /\ threads.pc[t] = "lookup"
    /\ LET c   == threads.req[t].cache
           hit == Cached(caches[c], ReadShard(t))
       IN  /\ threads' =
                 IF hit
                 THEN [threads EXCEPT
                          !.pc[t] = "read",
                          !.index[t] = (CHOOSE e \in caches[c].shards :
                                           e.shard = ReadShard(t)).index]
                 ELSE [threads EXCEPT !.pc[t] = "decode"]
           /\ caches' = IF hit THEN [caches EXCEPT ![c] = CacheUnlocked(@, t)]
                        ELSE caches
    /\ UNCHANGED <<zarrs, backend, store, arrays, groups, lastError, last>>

\* a miss: the shard's index is decoded from the backend
CacheDecode(t) ==
    /\ threads.pc[t] = "decode"
    /\ threads' = [threads EXCEPT
                      !.pc[t] = "insert",
                      !.index[t] = decode_shard_index(arrays[threads.req[t].h].meta,
                                                      store.chunks[ReadShard(t)])]
    /\ UNCHANGED <<zarrs, backend, store, arrays, groups, caches, lastError, last>>

\* and put in the table
CacheInsert(t) ==
    /\ threads.pc[t] = "insert"
    /\ caches' = [caches EXCEPT ![threads.req[t].cache] =
                     CacheUnlocked(
                        [@ EXCEPT !.shards = @ \cup {[shard |-> ReadShard(t),
                                                      index |-> threads.index[t]]},
                                  !.decodes[ReadShard(t)] = @ + 1], t)]
    /\ threads' = [threads EXCEPT !.pc[t] = "read"]
    /\ UNCHANGED <<zarrs, backend, store, arrays, groups, lastError, last>>

\* the inner chunk is decoded from the backend by the index the thread holds
CachedRead(t) ==
    /\ threads.pc[t] = "read"
    /\ LET m  == arrays[threads.req[t].h].meta
           sc == m.subchunk[1]
           fs == fixed_size(m.data_type)
           d  == partial_decode(m, threads.index[t], store.chunks[ReadShard(t)],
                                ReadInner(t))
           at == ReadElem(t) % sc
       IN  threads' =
              IF ~d.ok THEN [threads EXCEPT !.pc[t] = "error"]
              ELSE [threads EXCEPT
                       !.acc[t] = @ \o SubSeq(d.bytes, (at * fs) + 1, (at + 1) * fs),
                       !.pos[t] = @ + 1,
                       !.pc[t] = IF threads.pos[t] + 1 = ReadCount(threads.req[t], m)
                                 THEN "return" ELSE "lock"]
    /\ UNCHANGED <<zarrs, backend, store, arrays, groups, caches, lastError, last>>

\* the Impl's tail: the engine's error, the length check, the copy to the
\* caller's buffer
CachedReturn(t) ==
    /\ threads.pc[t] \in {"return", "error"}
    /\ LET r   == threads.req[t]
           buf == Buffer(r.count)
           out == IF threads.pc[t] = "error"
                  THEN [res |-> ZARRS_ERROR_ARRAY, msg |-> "engine error", buf |-> buf]
                  ELSE IF Len(threads.acc[t]) # r.count
                  THEN [res |-> ZARRS_ERROR_BUFFER_LENGTH,
                        msg |-> IF r.op = "zarrsArrayRetrieveSubChunk"
                                THEN "chunk_bytes_length does not match decoded chunk size"
                                ELSE "subset_bytes_length does not match decoded subset size",
                        buf |-> buf]
                  ELSE [res |-> ZARRS_SUCCESS, msg |-> NoMsg,
                        buf |-> ptr_copy(threads.acc[t], buf, r.count)]
       IN  /\ threads' = [threads EXCEPT !.pc[t] = "idle",
                                         !.ret[t] = [res |-> out.res, buf |-> out.buf]]
           /\ lastError' = Written(out.msg)
    /\ UNCHANGED <<zarrs, backend, store, arrays, groups, caches, last>>

\* the cached retrievals the threads make: every inner chunk and one past the
\* grid, one with a wrong length, and two subsets, inside a shard and across
\* the two shards
ThreadReads(a, c) ==
    { [NoRead EXCEPT !.op = "zarrsArrayRetrieveSubChunk", !.h = a, !.cache = c,
                     !.idx = <<i>>, !.count = 1] : i \in 0..4 }
    \cup { [NoRead EXCEPT !.op = "zarrsArrayRetrieveSubChunk", !.h = a, !.cache = c,
                          !.idx = <<0>>, !.count = 2] }
    \cup { [NoRead EXCEPT !.op = "zarrsArrayRetrieveSubsetSharded", !.h = a, !.cache = c,
                          !.start = <<e>>, !.shape = <<2>>, !.count = 2] : e \in 0..1 }

\* a sharded array is created and written and a cache is constructed by one
\* thread; then the threads make cached retrievals through the cache
NextCache ==
    \/ \E a \in ArrayHandles : zarrsCreateArrayRW("RW", "/", ShardedMeta, a)
    \/ \E a \in ArrayHandles, k \in ChunkKeys, b \in ShardWrites :
          /\ \A c \in CacheHandles : ~LiveCache(c)
          /\ zarrsArrayStoreChunk(a, <<k>>, b, TRUE)
    \/ \E a \in ArrayHandles, c \in CacheHandles :
          /\ threads = NoThreads
          /\ zarrsCreateShardIndexCache(a, c)
    \/ \E t \in Threads, a \in ArrayHandles, c \in CacheHandles :
          \E r \in ThreadReads(a, c) : CachedBegin(t, r)
    \/ \E t \in Threads : CacheLock(t)
    \/ \E t \in Threads : CacheLookup(t)
    \/ \E t \in Threads : CacheDecode(t)
    \/ \E t \in Threads : CacheInsert(t)
    \/ \E t \in Threads : CachedRead(t)
    \/ \E t \in Threads : CachedReturn(t)

SpecCache == Init /\ [][NextCache]_vars

\* what the cached retrieval r returns when it is the only call made through
\* a cache
RunAlone(r) ==
    LET m   == arrays[r.h].meta
        buf == Buffer(r.count)
        out == IF r.op = "zarrsArrayRetrieveSubChunk"
               THEN zarrsArrayRetrieveSubChunkImpl(store, m, EmptyCache, r.idx, r.count,
                                                   buf, TRUE)
               ELSE zarrsArrayRetrieveSubsetShardedImpl(store, m, EmptyCache, r.start,
                                                        r.shape, r.count, buf, TRUE)
    IN  [res |-> out.res, buf |-> out.buf]

\* the entries the table of cache c holds for shard k
Entries(c, k) == { e \in caches[c].shards : e.shard = k }

\* C22: threads that make cached retrievals through one constructed cache,
\* under every interleaving of their steps: each call that has returned
\* returned the result and the bytes it returns when run alone, and for each
\* shard the table holds at most one entry, decoded once, the index of the
\* shard as stored.
C22_ConcurrentCachedReads ==
    /\ \A t \in Threads :
          threads.ret[t] # NoRet => threads.ret[t] = RunAlone(threads.req[t])
    /\ \A c \in CacheHandles, k \in ChunkKeys :
          LiveCache(c) =>
             /\ Cardinality(Entries(c, k)) <= 1
             /\ caches[c].decodes[k] <= 1
             /\ \A a \in ArrayHandles, e \in Entries(c, k) :
                   Live(a) => e.index = decode_shard_index(arrays[a].meta, store.chunks[k])

\* both threads have returned from retrievals that took the index of the
\* stored shard 0 from the one cache; the index was decoded once, and one of
\* the retrievals went on to shard 1
C22_Witness ==
    /\ threads.pc = [t \in Threads |-> "idle"]
    /\ threads.req["t1"].op = "zarrsArrayRetrieveSubChunk"
    /\ threads.req["t1"].idx = <<1>>
    /\ threads.ret["t1"] = [res |-> ZARRS_SUCCESS, buf |-> <<1>>]
    /\ threads.req["t2"].op = "zarrsArrayRetrieveSubsetSharded"
    /\ threads.req["t2"].start = <<1>>
    /\ threads.ret["t2"] = [res |-> ZARRS_SUCCESS, buf |-> <<1, 1>>]
    /\ store.chunks[0] = encode(ShardedMeta, <<0, 1>>)
    /\ caches["c1"].decodes = [k \in ChunkKeys |-> 1]

====
